---- MODULE Spec2Model ----
(***************************************************************************)
(* Model of the Cronlytic MCP server: the HTTP client's request loop       *)
(* (cronlytic_client.py) and the tool handlers built on it                  *)
(* (tools/job_management.py, tools/job_control.py, tools/health_check.py).  *)
(***************************************************************************)
EXTENDS Integers, Sequences, FiniteSets, TLC

VARIABLES
    \* ---- one call of CronlyticAPIClient._make_request ----
    config,     \* AuthConfig: [max_retries, retry_delay]
    endpoint,   \* the endpoint argument, as its "/"-separated segments
    rpc,        \* position in _make_request: "idle", "loop", "backoff", "done"
    attempt,    \* the loop variable of `for attempt in range(max_retries + 1)`
    events,     \* what the call did so far: attempts (with their outcome class) and sleeps
    response,   \* the outcome of the latest attempt, as the transport produced it
    outcome,    \* how the call ended: [type |-> "none" | "return" | "raise", ...]
    \* ---- concurrent tool invocations ----
    inv,        \* per invocation: the handler's local state and the attempts it sent
    clients,    \* per client object: its session
    sessions,   \* every session ever created, in order: [owner, closed]
    remote,     \* the remote service: the POST /jobs requests it may have processed
    \* ---- one use of the cron utilities of utils/validation.py ----
    cron,       \* [pc, expression, accepted, count, times]
    \* ---- one call of get_auth_config (utils/auth.py) ----
    auth,       \* [pc, direct, env, file, result]
    \* ---- the "tool_call" metric of the performance monitor (utils/performance.py) ----
    perf,       \* [calls, raised, metrics]: per operation name its PerformanceMetrics
    \* ---- one CacheManager (utils/performance.py) ----
    cache       \* [default_ttl, now, entries, log, last]

reqVars  == <<config, endpoint, rpc, attempt, events, response, outcome>>
toolVars == <<inv, clients, sessions, remote>>
cronVars == <<cron>>
utilVars == <<cron, auth, perf, cache>>
vars     == <<reqVars, toolVars, utilVars>>

(***************************************************************************)
(* Bounds                                                                  *)
(***************************************************************************)
MaxRetriesBound == 2
NumInvocations  == 2
MaxLogs         == 3
MaxJobs         == 3
MaxCount        == 3
MaxSessions     == 3
MaxCalls        == 102
MaxRecords      == 3
MaxTime         == 3

RetryDelays == {1, 3}

(***************************************************************************)
(* Values returned by the transport                                        *)
(***************************************************************************)
None == {}
Some(v) == {v}

\* The status codes the model distinguishes: the seven the code names and
\* two it does not (a 2xx other than 200, a 5xx).
Statuses == {200, 201, 401, 403, 404, 422, 429, 500}

\* The `detail` member of a JSON object body.
NoMap == [error |-> None, plan |-> None, job_count |-> None, max_jobs |-> None]
DetailAbsent == [tag |-> "absent", str |-> "", map |-> NoMap]
DetailStr    == [tag |-> "str", str |-> "quota reached", map |-> NoMap]
DetailLimit  == [tag |-> "map", str |-> "",
                 map |-> [error |-> Some("Job limit exceeded"), plan |-> Some("free"),
                          job_count |-> Some(5), max_jobs |-> Some(10)]]
DetailLimitBare == [tag |-> "map", str |-> "",
                    map |-> [error |-> None, plan |-> None,
                             job_count |-> Some(0), max_jobs |-> None]]
DetailMap    == [tag |-> "map", str |-> "", map |-> NoMap]
Details == {DetailAbsent, DetailStr, DetailLimit, DetailLimitBare, DetailMap}

\* `"job_count" in detail`
HasJobCount(detail) == detail.tag = "map" /\ detail.map.job_count # None

\* response_data after lines 119-128: a JSON object (also {} and
\* {"message": text}), or a JSON array (as any JSON value that is not an
\* object, it has no .get).
Bodies == [shape : {"object"}, detail : Details]
            \cup {[shape |-> "array", detail |-> DetailAbsent]}

\* The Retry-After header: absent, or its text as a sequence of characters.
RetryAfterTexts == { <<>>, <<"3", "0">>, <<"W", "e", "d">> }
RetryAfterHeaders == {[present |-> FALSE, text |-> <<>>]}
                        \cup [present : {TRUE}, text : RetryAfterTexts]

\* What one `session.request(...)` can end in.
Responses == [type : {"response"}, status : Statuses, body : Bodies,
              retry_after : RetryAfterHeaders]
NoBody   == [shape |-> "object", detail |-> DetailAbsent]
NoHeader == [present |-> FALSE, text |-> <<>>]
Failure(t) == [type |-> t, status |-> 0, body |-> NoBody, retry_after |-> NoHeader]
Transport == {Failure("timeout"), Failure("connect"), Failure("exception")}
                \cup Responses

(***************************************************************************)
(* Errors (utils/errors.py)                                                *)
(***************************************************************************)
NoDetails == <<>>

CronlyticError(class, message, details) ==
    [class |-> class, message |-> message, details |-> details]

AuthenticationError(message) ==
    CronlyticError("AuthenticationError", message, NoDetails)

AuthorizationError(message, plan, current_count, max_allowed) ==
    CronlyticError("AuthorizationError", message,
                   [plan |-> plan, current_count |-> current_count,
                    max_allowed |-> max_allowed])

NotFoundError(resource_type, resource_id) ==
    CronlyticError("NotFoundError",
                   <<resource_type, " with ID '", resource_id, "' not found">>,
                   [resource_type |-> resource_type, resource_id |-> resource_id])

\* `response_data or {}`: an absent response_data becomes the empty object.
APIError(message, status_code, response_data) ==
    CronlyticError("APIError", message,
                   [status_code |-> status_code,
                    response_data |-> IF response_data = None THEN NoBody
                                      ELSE CHOOSE b \in response_data : TRUE])

ConnectionError(message) == CronlyticError("ConnectionError", message, NoDetails)

RateLimitError(message, retry_after) ==
    CronlyticError("RateLimitError", message, [retry_after |-> retry_after])

TimeoutError(message) == CronlyticError("TimeoutError", message, NoDetails)

\* Exceptions that are not part of the taxonomy (raised by the transport or
\* by the interpreter while a response is handled).
BuiltinException(class, message) ==
    [class |-> class, message |-> message, details |-> NoDetails]

TaxonomyClasses == {"AuthenticationError", "AuthorizationError", "NotFoundError",
                    "APIError", "ConnectionError", "RateLimitError", "TimeoutError"}

(***************************************************************************)
(* Conversions                                                             *)
(***************************************************************************)
DigitChars == <<"0", "1", "2", "3", "4", "5", "6", "7", "8", "9">>
IsDigit(c) == \E i \in 1..10 : DigitChars[i] = c
DigitValue(c) == (CHOOSE i \in 1..10 : DigitChars[i] = c) - 1

RECURSIVE DigitsValue(_)
DigitsValue(text) ==
    IF text = <<>> THEN 0
    ELSE 10 * DigitsValue(SubSeq(text, 1, Len(text) - 1)) + DigitValue(text[Len(text)])

\* int(text) for a text of decimal digits; any other text raises ValueError.
IntParses(text) == text # <<>> /\ \A i \in 1..Len(text) : IsDigit(text[i])

\* str(detail) inside an f-string or as an exception's text.
DetailText(detail) ==
    CASE detail.tag = "str" -> detail.str
      [] HasJobCount(detail) -> "{'job_count': ..}"
      [] detail.tag = "map" -> "{..}"
      [] OTHER -> ""

\* endpoint.split("/")[-1]: the characters after the last "/".
RECURSIVE LastSegment(_)
LastSegment(cs) ==
    IF cs = <<>> \/ cs[Len(cs)] = "/" THEN <<>>
    ELSE LastSegment(SubSeq(cs, 1, Len(cs) - 1)) \o << cs[Len(cs)] >>

(***************************************************************************)
(* _make_request, one iteration of the retry loop                          *)
(***************************************************************************)
Timeout == 30

Return(value) == [type |-> "return", value |-> value]
Raise(exc)    == [type |-> "raise", exc |-> exc]
Continue      == [type |-> "continue"]

\* response_data.get(...) on a value that is not a JSON object.
NoGet == Raise(BuiltinException("AttributeError", <<"object has no attribute 'get'">>))

\* Lines 130-181: the status dispatch on a received response.
HandleStatus(r, ep) ==
    CASE r.status = 200 -> Return(r.body)
      [] r.status = 401 ->
            IF r.body.shape # "object" THEN NoGet
            ELSE Raise(AuthenticationError(
                    IF r.body.detail.tag = "absent" THEN <<"Authentication failed">>
                    ELSE <<DetailText(r.body.detail)>>))
      [] r.status = 403 ->
            IF r.body.shape # "object" THEN NoGet
            ELSE IF HasJobCount(r.body.detail)
                 THEN Raise(AuthorizationError(
                        IF r.body.detail.map.error = None THEN <<"Authorization failed">>
                        ELSE <<CHOOSE e \in r.body.detail.map.error : TRUE>>,
                        r.body.detail.map.plan, r.body.detail.map.job_count,
                        r.body.detail.map.max_jobs))
                 ELSE Raise(AuthorizationError(
                        IF r.body.detail.tag = "str" THEN <<r.body.detail.str>>
                        ELSE <<"Authorization failed">>, None, None, None))
      [] r.status = 404 -> Raise(NotFoundError("resource", LastSegment(ep)))
      [] r.status = 422 ->
            IF r.body.shape # "object" THEN NoGet
            ELSE Raise(APIError(
                    <<"Validation error: ",
                      IF r.body.detail.tag = "absent" THEN "Validation error"
                      ELSE DetailText(r.body.detail)>>,
                    Some(r.status), Some(r.body)))
      [] r.status = 429 ->
            IF r.retry_after.present /\ r.retry_after.text # <<>>
            THEN IF IntParses(r.retry_after.text)
                 THEN Raise(RateLimitError(<<"Rate limit exceeded">>,
                                           Some(DigitsValue(r.retry_after.text))))
                 ELSE Raise(BuiltinException("ValueError",
                                             <<"invalid literal for int()">>))
            ELSE Raise(RateLimitError(<<"Rate limit exceeded">>, None))
      [] OTHER ->
            IF r.body.shape # "object" THEN NoGet
            ELSE Raise(APIError(
                    IF r.body.detail.tag = "absent"
                    THEN <<"HTTP ", ToString(r.status)>>
                    ELSE <<DetailText(r.body.detail)>>,
                    Some(r.status), Some(r.body)))

\* Lines 111-181: the body of the try block for one transport outcome.
TryBody(r, ep) ==
    CASE r.type = "timeout"   -> Raise(BuiltinException("asyncio.TimeoutError", <<>>))
      [] r.type = "connect"   -> Raise(BuiltinException("aiohttp.ClientError",
                                                        <<"Cannot connect to host">>))
      [] r.type = "exception" -> Raise(BuiltinException("RuntimeError", <<"boom">>))
      [] OTHER                -> HandleStatus(r, ep)

NonRetryable == {"AuthenticationError", "AuthorizationError", "NotFoundError",
                 "RateLimitError"}

\* Except clauses whose timeout clause raises nothing on the last attempt.
ExceptClausesSilentTimeout(exc, att, cfg) ==
    CASE exc.class = "asyncio.TimeoutError" -> Continue
      [] exc.class = "aiohttp.ClientError" ->
            IF att = cfg.max_retries
            THEN Raise(ConnectionError(<<"Connection failed: ">> \o exc.message))
            ELSE Continue
      [] exc.class \in NonRetryable -> Raise(exc)
      [] OTHER ->
            IF att = cfg.max_retries
            THEN Raise(APIError(<<"Unexpected error: ">> \o exc.message, None, None))
            ELSE Continue

\* Except clauses that report an exhausted budget as a connection failure,
\* whatever the last attempt failed with.
ExceptClausesAllConnection(exc, att, cfg) ==
    CASE exc.class \in NonRetryable -> Raise(exc)
      [] OTHER ->
            IF att = cfg.max_retries
            THEN Raise(ConnectionError(<<"Connection failed: ">> \o exc.message))
            ELSE Continue

\* Lines 183-200: the except clauses, in the order Python tries them.
ExceptClauses(exc, att, cfg) ==
    CASE exc.class = "asyncio.TimeoutError" ->
            IF att = cfg.max_retries
            THEN Raise(TimeoutError(<<"Request timeout after ", ToString(Timeout), "s">>))
            ELSE Continue
      [] exc.class = "aiohttp.ClientError" ->
            IF att = cfg.max_retries
            THEN Raise(ConnectionError(<<"Connection failed: ">> \o exc.message))
            ELSE Continue
      [] exc.class \in NonRetryable -> Raise(exc)
      [] OTHER ->
            IF att = cfg.max_retries
            THEN Raise(APIError(<<"Unexpected error: ">> \o exc.message, None, None))
            ELSE Continue

\* A pass in which a returned body does not end the loop before the last attempt.
OneAttemptKeepsGoing(r, ep, att, cfg) ==
    LET body == TryBody(r, ep)
    IN  IF body.type = "return"
        THEN IF att = cfg.max_retries THEN body ELSE Continue
        ELSE ExceptClauses(body.exc, att, cfg)

\* Lines 111-200: one pass through try/except for one transport outcome.
OneAttempt(r, ep, att, cfg) ==
    LET body == TryBody(r, ep)
    IN  IF body.type = "return" THEN body
        ELSE ExceptClauses(body.exc, att, cfg)

\* A backoff that does not grow: the same delay after every attempt.
BackoffDelayFlat(att, cfg) == cfg.retry_delay

\* Line 204: the backoff delay after attempt att.
BackoffDelay(att, cfg) == cfg.retry_delay * (2 ^ att)

(***************************************************************************)
(* One call of _make_request as a state machine                            *)
(***************************************************************************)
SampleJobId == <<"j", "o", "b", "-", "1">>

\* Lines 220-316: the endpoint each client method requests.
PingPath == <<"/", "p", "i", "n", "g">>
JobsPath == <<"/", "j", "o", "b", "s">>
JobPath(id) == JobsPath \o <<"/">> \o id
JobActionPath(id, action) == JobPath(id) \o <<"/">> \o action
PauseWord  == <<"p", "a", "u", "s", "e">>
ResumeWord == <<"r", "e", "s", "u", "m", "e">>
LogsWord   == <<"l", "o", "g", "s">>

Endpoints == { JobPath(SampleJobId), JobActionPath(SampleJobId, PauseWord) }

Configs == [max_retries : 0..MaxRetriesBound, retry_delay : RetryDelays]

\* What an entry of `events` remembers of an attempt.
OutcomeClass(r) == IF r.type = "response" THEN ToString(r.status) ELSE r.type

AttemptEvent(att, r) == [type |-> "attempt", n |-> att, class |-> OutcomeClass(r), delay |-> 0]
SleepEvent(att, d)   == [type |-> "sleep", n |-> att, class |-> "", delay |-> d]

NoOutcome == [type |-> "none"]
NoResponse == Failure("none")

ReqInit ==
    /\ config \in Configs
    /\ endpoint \in Endpoints
    /\ rpc = "idle"
    /\ attempt = 0
    /\ events = <<>>
    /\ response = NoResponse
    /\ outcome = NoOutcome

\* Lines 105-110: the call enters the retry loop.
RequestStart ==
    /\ rpc = "idle"
    /\ rpc' = "loop"
    /\ attempt' = 0
    /\ UNCHANGED <<config, endpoint, events, response, outcome, toolVars, utilVars>>

\* Lines 110-203: one iteration up to the backoff, or the fall-through of
\* line 209 when range(max_retries + 1) is exhausted.
RequestAttempt ==
    /\ rpc = "loop"
    /\ IF attempt < config.max_retries + 1
       THEN \E r \in Transport :
              LET res == OneAttempt(r, endpoint, attempt, config)
              IN  /\ events' = Append(events, AttemptEvent(attempt, r))
                  /\ response' = r
                  /\ IF res.type = "continue"
                     THEN /\ outcome' = outcome
                          /\ IF attempt < config.max_retries
                             THEN rpc' = "backoff" /\ attempt' = attempt
                             ELSE rpc' = "loop" /\ attempt' = attempt + 1
                     ELSE /\ outcome' = res
                          /\ rpc' = "done"
                          /\ attempt' = attempt
       ELSE /\ outcome' = Raise(APIError(<<"Maximum retries exceeded">>, None, None))
            /\ rpc' = "done"
            /\ UNCHANGED <<attempt, events, response>>
    /\ UNCHANGED <<config, endpoint, toolVars, utilVars>>

\* Lines 203-206: the backoff sleep, then the next iteration.
RequestSleep ==
    /\ rpc = "backoff"
    /\ events' = Append(events, SleepEvent(attempt, BackoffDelay(attempt, config)))
    /\ attempt' = attempt + 1
    /\ rpc' = "loop"
    /\ UNCHANGED <<config, endpoint, response, outcome, toolVars, utilVars>>

(***************************************************************************)
(* Python values that reach the validators (utils/validation.py)           *)
(***************************************************************************)
\* A text is the sequence of its characters.
Str(chars)  == [type |-> "str", chars |-> chars, num |-> 0, items |-> <<>>]
PyNone      == [type |-> "none", chars |-> <<>>, num |-> 0, items |-> <<>>]
PyInt(n)    == [type |-> "int", chars |-> <<>>, num |-> n, items |-> <<>>]
PyBool(b)   == [type |-> "bool", chars |-> <<>>, num |-> IF b THEN 1 ELSE 0, items |-> <<>>]
\* A dict is the sequence of its (key, value) pairs.
PyDict(kvs) == [type |-> "dict", chars |-> <<>>, num |-> 0, items |-> kvs]
\* The key is not in the arguments.
Missing     == [type |-> "missing", chars |-> <<>>, num |-> 0, items |-> <<>>]

\* bool(v)
Truthy(v) ==
    CASE v.type = "str"  -> v.chars # <<>>
      [] v.type = "int"  -> v.num # 0
      [] v.type = "bool" -> v.num # 0
      [] v.type = "dict" -> v.items # <<>>
      [] OTHER -> FALSE

\* arguments.get(key, default)
Get(v, default) == IF v.type = "missing" THEN default ELSE v

IsSpace(c) == c \in {" ", "\t", "\n"}

RECURSIVE LStrip(_)
LStrip(cs) == IF cs # <<>> /\ IsSpace(cs[1]) THEN LStrip(Tail(cs)) ELSE cs

RECURSIVE RStrip(_)
RStrip(cs) ==
    IF cs # <<>> /\ IsSpace(cs[Len(cs)]) THEN RStrip(SubSeq(cs, 1, Len(cs) - 1)) ELSE cs

\* str.strip()
Strip(cs) == RStrip(LStrip(cs))

LowerCase == <<"a", "b", "c", "d", "e", "f", "g", "h", "i", "j", "k", "l", "m",
               "n", "o", "p", "q", "r", "s", "t", "u", "v", "w", "x", "y", "z">>
UpperCase == <<"A", "B", "C", "D", "E", "F", "G", "H", "I", "J", "K", "L", "M",
               "N", "O", "P", "Q", "R", "S", "T", "U", "V", "W", "X", "Y", "Z">>
IsLower(c) == \E i \in 1..26 : LowerCase[i] = c
IsUpper(c) == \E i \in 1..26 : UpperCase[i] = c
ToUpper(c) == IF IsLower(c) THEN UpperCase[CHOOSE i \in 1..26 : LowerCase[i] = c] ELSE c
ToLower(c) == IF IsUpper(c) THEN LowerCase[CHOOSE i \in 1..26 : UpperCase[i] = c] ELSE c
Upper(cs) == [i \in 1..Len(cs) |-> ToUpper(cs[i])]
Lower(cs) == [i \in 1..Len(cs) |-> ToLower(cs[i])]

ValidationError(field, message, value) ==
    [class |-> "ValidationError", field |-> field, value |-> value,
     message |-> <<"Validation error for field '", field, "': ", message>>,
     details |-> [field |-> field, value |-> value]]

Ok(value)   == [ok |-> TRUE, value |-> value]
Fail(exc)   == [ok |-> FALSE, exc |-> exc]
\* v.strip() (or another str method) on a value that is not a str.
NotAStr == Fail(BuiltinException("AttributeError", <<"object has no attribute 'strip'">>))

\* validate_job_id
validate_job_id(job_id) ==
    IF ~Truthy(job_id) THEN Fail(ValidationError("job_id", "Job ID cannot be empty", job_id))
    ELSE IF job_id.type # "str" THEN NotAStr
    ELSE LET id == Strip(job_id.chars)
         IN  IF id = <<>>
             THEN Fail(ValidationError("job_id", "Job ID cannot be empty", Str(id)))
             ELSE IF Len(id) < 3
             THEN Fail(ValidationError("job_id", "Job ID appears to be too short", Str(id)))
             ELSE Ok(Str(id))

MaxNameLen == 50

\* JOB_NAME_PATTERN
IsNameChar(c) == IsLower(c) \/ IsUpper(c) \/ IsDigit(c) \/ c \in {"_", "-"}

\* `$` also matches before a trailing newline, which strip() has removed.
JobNamePatternMatches(cs) == cs # <<>> /\ \A i \in 1..Len(cs) : IsNameChar(cs[i])

\* validate_job_name
validate_job_name(name) ==
    IF ~Truthy(name) THEN Fail(ValidationError("name", "Job name cannot be empty", name))
    ELSE IF name.type # "str" THEN NotAStr
    ELSE LET n == Strip(name.chars)
         IN  IF Len(n) = 0
             THEN Fail(ValidationError("name", "Job name cannot be empty", Str(n)))
             ELSE IF Len(n) > MaxNameLen
             THEN Fail(ValidationError("name", "Job name cannot exceed 50 characters", Str(n)))
             ELSE IF ~JobNamePatternMatches(n)
             THEN Fail(ValidationError("name",
                        "Job name can only contain letters, numbers, hyphens (-), and underscores (_)",
                        Str(n)))
             ELSE Ok(Str(n))

\* Index of the first occurrence of one of the characters cset in cs, or 0.
FirstOf(cs, cset) ==
    IF \E i \in 1..Len(cs) : cs[i] \in cset
    THEN CHOOSE i \in 1..Len(cs) : cs[i] \in cset /\ \A j \in 1..(i - 1) : cs[j] \notin cset
    ELSE 0

IsSchemeChar(c) == IsLower(c) \/ IsUpper(c) \/ IsDigit(c) \/ c \in {"+", "-", "."}

\* urlparse(url).scheme: the text before the first ":", lower-cased, when it
\* starts with a letter and consists of scheme characters; "" otherwise.
UrlScheme(cs) ==
    LET i == FirstOf(cs, {":"})
    IN  IF i > 1 /\ (IsLower(cs[1]) \/ IsUpper(cs[1]))
             /\ \A j \in 1..(i - 1) : IsSchemeChar(cs[j])
        THEN Lower(SubSeq(cs, 1, i - 1))
        ELSE <<>>

\* urlparse(url).netloc: after "//", up to the next "/", "?" or "#".
UrlNetloc(cs) ==
    LET sch  == UrlScheme(cs)
        rest == IF sch = <<>> THEN cs ELSE SubSeq(cs, Len(sch) + 2, Len(cs))
    IN  IF Len(rest) >= 2 /\ rest[1] = "/" /\ rest[2] = "/"
        THEN LET after == SubSeq(rest, 3, Len(rest))
                 e     == FirstOf(after, {"/", "?", "#"})
             IN  IF e = 0 THEN after ELSE SubSeq(after, 1, e - 1)
        ELSE <<>>

\* validate_url
validate_url(url) ==
    IF ~Truthy(url) THEN Fail(ValidationError("url", "URL cannot be empty", url))
    ELSE IF url.type # "str" THEN NotAStr
    ELSE LET u == Strip(url.chars)
         IN  IF u = <<>> THEN Fail(ValidationError("url", "URL cannot be empty", Str(u)))
             ELSE IF UrlScheme(u) = <<>>
             THEN Fail(ValidationError("url",
                        "URL must include a scheme (http:// or https://)", Str(u)))
             ELSE IF UrlScheme(u) \notin {<<"h", "t", "t", "p">>, <<"h", "t", "t", "p", "s">>}
             THEN Fail(ValidationError("url", "URL scheme must be http:// or https://", Str(u)))
             ELSE IF UrlNetloc(u) = <<>>
             THEN Fail(ValidationError("url", "URL must include a domain name", Str(u)))
             ELSE Ok(Str(u))

AllowedMethods == { <<"G", "E", "T">>, <<"P", "O", "S", "T">>, <<"P", "U", "T">>,
                    <<"D", "E", "L", "E", "T", "E">>, <<"P", "A", "T", "C", "H">>,
                    <<"H", "E", "A", "D">>, <<"O", "P", "T", "I", "O", "N", "S">> }

\* validate_http_method
validate_http_method(method) ==
    IF ~Truthy(method)
    THEN Fail(ValidationError("method", "HTTP method cannot be empty", method))
    ELSE IF method.type # "str" THEN NotAStr
    ELSE LET m == Upper(Strip(method.chars))
         IN  IF m \notin AllowedMethods
             THEN Fail(ValidationError("method", "HTTP method must be one of: ...", Str(m)))
             ELSE Ok(Str(m))

\* dict[key] = value on a dict kept as a sequence of pairs.
RECURSIVE DictSet(_, _, _)
DictSet(kvs, key, value) ==
    IF kvs = <<>> THEN << [k |-> key, v |-> value] >>
    ELSE IF kvs[1].k = key THEN << [k |-> key, v |-> value] >> \o Tail(kvs)
    ELSE << kvs[1] >> \o DictSet(Tail(kvs), key, value)

\* Lines 218-237: the loop over headers.items(), from pair i on.
RECURSIVE ValidateHeaderItems(_, _, _)
ValidateHeaderItems(kvs, i, validated) ==
    IF i > Len(kvs) THEN Ok(PyDict(validated))
    ELSE LET key == kvs[i].k
             value == kvs[i].v
         IN  IF key.type # "str"
             THEN Fail(ValidationError("headers", "Header key must be a string", key))
             ELSE IF value.type # "str"
             THEN Fail(ValidationError("headers", "Header value must be a string", value))
             ELSE IF Strip(key.chars) = <<>>
             THEN Fail(ValidationError("headers", "Header key cannot be empty",
                                       Str(Strip(key.chars))))
             ELSE ValidateHeaderItems(kvs, i + 1,
                        DictSet(validated, Str(Strip(key.chars)), Str(Strip(value.chars))))

\* validate_headers
\* validate_headers ending in `return validated_headers or None`.
validate_headers_or_none(headers) ==
    IF headers.type = "none" THEN Ok(PyDict(<<>>))
    ELSE IF headers.type # "dict"
    THEN Fail(ValidationError("headers", "Headers must be a dictionary", headers))
    ELSE LET r == ValidateHeaderItems(headers.items, 1, <<>>)
         IN  IF r.ok /\ r.value.items = <<>> THEN Ok(PyNone) ELSE r

validate_headers(headers) ==
    IF headers.type = "none" THEN Ok(PyDict(<<>>))
    ELSE IF headers.type # "dict"
    THEN Fail(ValidationError("headers", "Headers must be a dictionary", headers))
    ELSE ValidateHeaderItems(headers.items, 1, <<>>)

\* validate_request_body
validate_request_body(body) ==
    IF body.type = "none" THEN Ok(Str(<<>>))
    ELSE IF body.type # "str"
    THEN Fail(ValidationError("body", "Request body must be a string", body))
    ELSE Ok(body)

\* str.split(): the maximal runs of non-whitespace characters.
RECURSIVE Split(_)
Split(cs) ==
    LET t == LStrip(cs)
    IN  IF t = <<>> THEN <<>>
        ELSE LET e == FirstOf(t, {" ", "\t", "\n"})
             IN  IF e = 0 THEN << t >>
                 ELSE << SubSeq(t, 1, e - 1) >> \o Split(SubSeq(t, e, Len(t)))

\* CRON_FIELD_PATTERN
IsCronChar(c) == IsDigit(c) \/ c \in {"*", ",", "/", "-"}
CronFieldPatternMatches(f) == f # <<>> /\ \A i \in 1..Len(f) : IsCronChar(f[i])

CronFieldNames == <<"minute", "hour", "day", "month", "day-of-week">>
CronFieldMin == <<0, 0, 1, 1, 0>>
CronFieldMax == <<59, 23, 31, 12, 7>>

\* croniter's acceptance of one field, for the forms "*", "*/n" and "n"
\* (the forms the inputs of this model use): n is in the field's range and
\* a step is at least 1.
CroniterAcceptsField(f, i) ==
    \/ f = << "*" >>
    \/ /\ Len(f) >= 3 /\ f[1] = "*" /\ f[2] = "/"
       /\ IntParses(SubSeq(f, 3, Len(f)))
       /\ DigitsValue(SubSeq(f, 3, Len(f))) >= 1
       /\ DigitsValue(SubSeq(f, 3, Len(f))) <= CronFieldMax[i]
    \/ /\ IntParses(f)
       /\ DigitsValue(f) >= CronFieldMin[i]
       /\ DigitsValue(f) <= CronFieldMax[i]

\* validate_cron_expression
validate_cron_expression(expression) ==
    IF ~Truthy(expression)
    THEN Fail(ValidationError("cron_expression", "Cron expression cannot be empty", expression))
    ELSE IF expression.type # "str" THEN NotAStr
    ELSE LET e == Strip(expression.chars)
             fields == Split(e)
         IN  IF e = <<>>
             THEN Fail(ValidationError("cron_expression", "Cron expression cannot be empty",
                                       Str(e)))
             ELSE IF Len(fields) # 5
             THEN Fail(ValidationError("cron_expression",
                        "Cron expression must have exactly 5 fields", Str(e)))
             ELSE IF \E i \in 1..5 : ~CronFieldPatternMatches(fields[i])
             THEN Fail(ValidationError("cron_expression", "Invalid field", Str(e)))
             ELSE IF \E i \in 1..5 : ~CroniterAcceptsField(fields[i], i)
             THEN Fail(ValidationError("cron_expression", "Invalid cron expression", Str(e)))
             ELSE Ok(Str(e))

\* Job data: the six members a job dict can have (Missing when absent).
JobFields == <<"name", "url", "method", "headers", "body", "cron_expression">>

FieldValidator(field, v) ==
    CASE field = "name"    -> validate_job_name(v)
      [] field = "url"     -> validate_url(v)
      [] field = "method"  -> validate_http_method(v)
      [] field = "headers" -> validate_headers(v)
      [] field = "body"    -> validate_request_body(v)
      [] OTHER             -> validate_cron_expression(v)

\* Lines 336-343: the validators in order, from field i on.
RECURSIVE ValidateFields(_, _, _)
ValidateFields(data, i, validated) ==
    IF i > Len(JobFields) THEN Ok(validated)
    ELSE LET r == FieldValidator(JobFields[i], data[JobFields[i]])
         IN  IF r.ok
             THEN ValidateFields(data, i + 1, [validated EXCEPT ![JobFields[i]] = r.value])
             ELSE r

\* validate_complete_job_data, for a dict argument
validate_complete_job_data(data) ==
    IF \E i \in 1..Len(JobFields) : data[JobFields[i]].type = "missing"
    THEN LET i == CHOOSE k \in 1..Len(JobFields) :
                    /\ data[JobFields[k]].type = "missing"
                    /\ \A j \in 1..(k - 1) : data[JobFields[j]].type # "missing"
         IN  Fail(ValidationError(JobFields[i], "Required field is missing", PyNone))
    ELSE ValidateFields(data, 1, data)

(***************************************************************************)
(* Client objects and their sessions (cronlytic_client.py, lines 32-71)     *)
(***************************************************************************)
NoSession == 0

\* One client object shared by all tool calls.
ClientShared(i) == 1

\* CronlyticAPIClient(config): every tool call constructs its own client.
ClientOf(i) == i

SessionOpen(cl, ss, c) == cl[c].session # NoSession /\ ~ss[cl[c].session].closed

\* A connect() that always makes a new session.
ConnectAlways(cl, ss, c) ==
    [clients  |-> [cl EXCEPT ![c].session = Len(ss) + 1],
     sessions |-> Append(ss, [owner |-> c, closed |-> FALSE])]

\* connect(): a new session unless one is open.
Connect(cl, ss, c) ==
    IF SessionOpen(cl, ss, c) THEN [clients |-> cl, sessions |-> ss]
    ELSE [clients  |-> [cl EXCEPT ![c].session = Len(ss) + 1],
          sessions |-> Append(ss, [owner |-> c, closed |-> FALSE])]

\* close() with its test inverted: it acts only on a session already closed.
CloseInverted(cl, ss, c) ==
    IF cl[c].session # NoSession /\ ss[cl[c].session].closed
    THEN [ss EXCEPT ![cl[c].session].closed = TRUE]
    ELSE ss

\* close(): closes the session if there is an open one.
Close(cl, ss, c) ==
    IF SessionOpen(cl, ss, c)
    THEN [ss EXCEPT ![cl[c].session].closed = TRUE]
    ELSE ss

(***************************************************************************)
(* Result envelopes of the tool handlers                                   *)
(***************************************************************************)
ValidationEnvelope(e) ==
    [success |-> FALSE, error |-> "Validation Error", message |-> e.message,
     field |-> e.field, value |-> e.value]

ErrorEnvelope(e) ==
    [success |-> FALSE, error |-> e.class, message |-> e.message, details |-> e.details]

UnexpectedEnvelope(e) ==
    [success |-> FALSE, error |-> "Unexpected Error", message |-> e.message]

\* The except clauses without the final `except Exception`: any other
\* exception propagates to the caller.
HandlerExceptNarrow(e) ==
    IF e.class = "ValidationError" THEN ValidationEnvelope(e)
    ELSE IF e.class \in TaxonomyClasses THEN ErrorEnvelope(e)
    ELSE [propagated |-> TRUE, exc |-> e]

\* The except clauses every job handler ends with, in order.
HandlerExcept(e) ==
    IF e.class = "ValidationError" THEN ValidationEnvelope(e)
    ELSE IF e.class \in TaxonomyClasses THEN ErrorEnvelope(e)
    ELSE UnexpectedEnvelope(e)

ConfirmationRequired(job_id) ==
    [success |-> FALSE, error |-> "Confirmation Required",
     message |-> <<"Job deletion requires confirmation. Set 'confirm' parameter to true to proceed.">>,
     warning |-> "This action cannot be undone.", job_id |-> job_id]

\* value.get(...) after the scope, on a value that is not a JSON object.
NoGetEnvelope ==
    UnexpectedEnvelope(BuiltinException("AttributeError", <<"object has no attribute 'get'">>))

(***************************************************************************)
(* Tool handlers                                                           *)
(***************************************************************************)
JobTools == {"create_job", "list_jobs", "get_job", "update_job", "delete_job",
             "pause_job", "resume_job", "get_job_logs"}
Tools == JobTools \cup {"health_check"}
JobIdTools == {"get_job", "update_job", "delete_job", "pause_job", "resume_job",
               "get_job_logs"}
JobDataTools == {"create_job", "update_job"}

NoData == [f \in {"name", "url", "method", "headers", "body", "cron_expression"} |-> Missing]

NoHealth == [status |-> "unknown", connectivity |-> FALSE, authentication |-> FALSE,
             response_time_ms |-> None, can_list_jobs |-> None, job_count |-> None,
             performance |-> None, error_type |-> None,
             errors |-> <<>>, recommendations |-> <<>>]

\* No result of client.health_check() yet.
NoHealthData == [status |-> "none", connected |-> FALSE, response_time_ms |-> None,
                 error |-> None, error_type |-> None]

IdleInvocation ==
    [pc |-> "idle", tool |-> "none", confirm |-> Missing, validation |-> "none",
     job_id |-> <<>>, input |-> NoData, data |-> NoData, limit |-> Missing,
     include_paused |-> Missing, opened |-> FALSE, call |-> "none",
     count |-> 0, listing |-> <<>>, ping |-> NoOutcome, health_data |-> NoHealthData,
     attempt |-> 0, sent |-> <<>>, pending |-> NoOutcome, job_name |-> None,
     raised |-> None, health |-> NoHealth, closeRaised |-> FALSE,
     result |-> [success |-> FALSE]]

\* The HTTP method and endpoint of each client method (lines 213-316).
CallMethod(call) ==
    CASE call \in {"ping", "list_jobs", "get_job", "get_job_logs"} -> "GET"
      [] call \in {"create_job", "pause_job", "resume_job"} -> "POST"
      [] call = "update_job" -> "PUT"
      [] OTHER -> "DELETE"

CallEndpoint(call, id) ==
    CASE call = "ping" -> PingPath
      [] call \in {"create_job", "list_jobs"} -> JobsPath
      [] call \in {"get_job", "update_job", "delete_job"} -> JobPath(id)
      [] call = "pause_job" -> JobActionPath(id, PauseWord)
      [] call = "resume_job" -> JobActionPath(id, ResumeWord)
      [] OTHER -> JobActionPath(id, LogsWord)

\* The first client method a handler calls inside its scope.
FirstCall(tool) ==
    CASE tool = "health_check" -> "ping"
      [] tool = "delete_job"   -> "get_job"
      [] OTHER                 -> tool

\* Validation whose failure is noticed only after the scope was entered.
PreflightLate(tool, args) ==
    LET idr == IF tool \in JobIdTools
               THEN validate_job_id(Get(args.job_id, Str(<<>>)))
               ELSE Ok(Str(<<>>))
        dr  == IF tool \in JobDataTools
               THEN validate_complete_job_data(args.data)
               ELSE Ok(NoData)
        bad == IF ~idr.ok THEN idr ELSE dr
    IN  [go |-> TRUE, result |-> [success |-> FALSE],
         validation |-> IF ~bad.ok THEN bad.exc.class ELSE "ok",
         job_id |-> IF idr.ok THEN idr.value.chars ELSE SampleJobId,
         data |-> IF dr.ok THEN dr.value ELSE NoData]

\* The handler's code before the client scope: local validation and, for
\* delete_job, the confirmation check.  `go` says whether the scope is entered.
Preflight(tool, args) ==
    LET idr == IF tool \in JobIdTools
               THEN validate_job_id(Get(args.job_id, Str(<<>>)))
               ELSE Ok(Str(<<>>))
        dr  == IF tool \in JobDataTools
               THEN validate_complete_job_data(args.data)
               ELSE Ok(NoData)
        bad == IF ~idr.ok THEN idr ELSE dr
    IN  IF ~bad.ok
        THEN [go |-> FALSE, result |-> HandlerExcept(bad.exc),
              validation |-> bad.exc.class,
              job_id |-> IF idr.ok THEN idr.value.chars ELSE <<>>, data |-> NoData]
        ELSE IF tool = "delete_job" /\ ~Truthy(Get(args.confirm, PyBool(FALSE)))
        THEN [go |-> FALSE, result |-> ConfirmationRequired(idr.value.chars),
              validation |-> "ok", job_id |-> idr.value.chars, data |-> NoData]
        ELSE [go |-> TRUE, result |-> [success |-> FALSE],
              validation |-> IF tool \in JobIdTools \cup JobDataTools THEN "ok" ELSE "none",
              job_id |-> idr.value.chars, data |-> dr.value]

\* The "name" member of a returned JSON object, when it has one.
BodyNames == {None, Some(<<"n", "i", "g", "h", "t", "l", "y">>)}

\* Response times client.health_check() can measure, in milliseconds.
ResponseTimes == {0, 50, 199, 200, 499, 500, 999, 1000}

\* Lengths of the job list a trial list_jobs can return.
JobCounts == {0, 2}

\* tools/health_check.py, lines 87-103: the performance assessment.
PerformanceAssessment(h) ==
    IF h.response_time_ms = None \/ h.response_time_ms = Some(0) THEN h
    ELSE LET t == CHOOSE x \in h.response_time_ms : TRUE
         IN  IF t < 200 THEN [h EXCEPT !.performance = Some("excellent")]
             ELSE IF t < 500 THEN [h EXCEPT !.performance = Some("good")]
             ELSE IF t < 1000
             THEN [h EXCEPT !.performance = Some("fair"),
                            !.recommendations = Append(@, "Response time is a bit slow.")]
             ELSE [h EXCEPT !.performance = Some("poor"),
                            !.recommendations = Append(@, "Response time is very slow.")]

\* health_check() that reports the API as connected whenever it answered.
health_check_answered(res, rt) ==
    IF res.type = "return"
    THEN [status |-> "healthy", connected |-> TRUE, response_time_ms |-> Some(rt),
          error |-> None, error_type |-> None]
    ELSE [status |-> "unhealthy",
          connected |-> res.exc.class \notin {"ConnectionError", "TimeoutError"},
          response_time_ms |-> None,
          error |-> Some(res.exc.message), error_type |-> Some(res.exc.class)]

\* cronlytic_client.py, lines 318-347: client.health_check(), given how
\* ping() ended (res) and the time it took (rt, in milliseconds).
health_check(res, rt) ==
    IF res.type = "return"
    THEN [status |-> "healthy", connected |-> TRUE, response_time_ms |-> Some(rt),
          error |-> None, error_type |-> None]
    ELSE [status |-> "unhealthy", connected |-> FALSE, response_time_ms |-> None,
          error |-> Some(res.exc.message), error_type |-> Some(res.exc.class)]

\* tools/health_check.py, lines 48-60: the result of client.health_check()
\* turned into the report's first members.
AfterPing(h, health_data) ==
    [h EXCEPT !.status = health_data.status,
              !.connectivity = health_data.connected,
              !.authentication = (health_data.status = "healthy"),
              !.response_time_ms = health_data.response_time_ms]

\* A trial list_jobs whose failure withdraws the authentication verdict.
AfterTrialListStrict(h, res, jc) ==
    IF res.type = "return"
    THEN [h EXCEPT !.job_count = Some(0), !.can_list_jobs = Some(TRUE)]
    ELSE [h EXCEPT !.can_list_jobs = Some(FALSE),
                   !.status = "unhealthy", !.authentication = FALSE,
                   !.errors = Append(@, "Failed to list jobs"),
                   !.recommendations = Append(@,
                        "Authentication succeeded but job listing failed. Check API permissions.")]

\* tools/health_check.py, lines 64-85: the trial list_jobs.
AfterTrialList(h, res, jc) ==
    IF res.type = "return"
    THEN LET n == IF res.value.shape = "array" THEN jc ELSE 0
         IN  [h EXCEPT !.job_count = Some(n), !.can_list_jobs = Some(TRUE),
                       !.recommendations = Append(@,
                            IF n = 0 THEN "No jobs found. You can create your first job using the create_job tool."
                            ELSE "Found job(s). All systems appear to be working correctly.")]
    ELSE [h EXCEPT !.can_list_jobs = Some(FALSE),
                   !.errors = Append(@, "Failed to list jobs"),
                   !.recommendations = Append(@,
                        "Authentication succeeded but job listing failed. Check API permissions.")]

\* What the handler does when a client method returned or raised (res),
\* up to the next client call or to the end of the scope.  `raised` keeps
\* the latest exception a client method raised in this invocation.
AfterCall(rec0, res, nm, rt, jc, js) ==
    LET rec == [rec0 EXCEPT !.raised = IF res.type = "raise" THEN Some(res.exc) ELSE @]
    IN
    CASE rec.tool = "delete_job" /\ rec.call = "get_job" ->
            \* lines 494-501: the job name is fetched on a best-effort basis
            [rec EXCEPT !.job_name =
                            IF res.type = "return" /\ res.value.shape = "object" /\ nm # None
                            THEN nm ELSE Some(rec.job_id),
                        !.call = "delete_job", !.attempt = 0, !.pc = "loop"]
      [] rec.tool = "health_check" /\ rec.call = "ping" ->
            LET hd == health_check(res, rt)
                h  == AfterPing(rec.health, hd)
            IN  IF hd.status = "healthy"
                THEN [rec EXCEPT !.ping = res, !.health_data = hd, !.health = h,
                                 !.call = "list_jobs", !.attempt = 0, !.pc = "loop"]
                ELSE [rec EXCEPT !.ping = res, !.health_data = hd,
                                 !.health = PerformanceAssessment(h),
                                 !.pending = Return(NoBody), !.pc = "exit"]
      [] rec.tool = "health_check" /\ rec.call = "list_jobs" ->
            [rec EXCEPT !.health = PerformanceAssessment(AfterTrialList(@, res, jc)),
                        !.pending = Return(NoBody), !.pc = "exit"]
      [] OTHER ->
            [rec EXCEPT !.pending = res, !.pc = "exit",
                        \* the "logs" member of the object get_job_logs returned
                        !.count = IF /\ rec.tool = "get_job_logs" /\ res.type = "return"
                                     /\ res.value.shape = "object"
                                  THEN jc ELSE 0,
                        \* the jobs of the array list_jobs returned
                        !.listing = IF /\ rec.tool = "list_jobs" /\ res.type = "return"
                                       /\ res.value.shape = "array"
                                    THEN js ELSE <<>>,
                        !.job_name = IF rec.tool = "delete_job" THEN @
                                     ELSE IF res.type = "return" /\ res.value.shape = "object"
                                     THEN nm ELSE None]

\* Numbers of entries of the "logs" member get_job_logs can return: few,
\* and more than the default limit and than the largest limit.
LogCounts == (0..MaxLogs) \cup {21, 101}

\* The "status" member of a returned job ("none": the job has no such member).
JobStatuses == {"pending", "paused", "none"}

\* The arrays list_jobs can return, each job given by its status.
JobListings == UNION {[1..n -> JobStatuses] : n \in 0..MaxJobs}

\* seq[:n]
Slice(seq, n) ==
    IF n >= 0 THEN SubSeq(seq, 1, IF n < Len(seq) THEN n ELSE Len(seq))
    ELSE SubSeq(seq, 1, IF Len(seq) + n > 0 THEN Len(seq) + n ELSE 0)

\* isinstance(v, int): bool is a subclass of int.
IsInstanceInt(v) == v.type \in {"int", "bool"}

\* The status counts of the summary; a job without status counts as "unknown".
StatusBreakdown(statuses) ==
    LET name(st) == IF st = "none" THEN "unknown" ELSE st
    IN  [nm \in {name(statuses[k]) : k \in 1..Len(statuses)} |->
            Cardinality({k \in 1..Len(statuses) : name(statuses[k]) = nm})]

\* The limit clamped into [1, 100] instead of replaced by the default.
EffectiveLogLimitClamped(arg) ==
    LET limit == Get(arg, PyInt(20))
    IN  IF ~IsInstanceInt(limit) THEN 20
        ELSE IF limit.num < 1 THEN 1
        ELSE IF limit.num > 100 THEN 100 ELSE limit.num

\* tools/job_control.py, lines 226-232: the limit get_job_logs applies.
EffectiveLogLimit(arg) ==
    LET limit == Get(arg, PyInt(20))
    IN  IF ~IsInstanceInt(limit) \/ limit.num < 1 \/ limit.num > 100 THEN 20 ELSE limit.num

\* tools/job_control.py, lines 240-277: the logs, truncated, and their summary.
LogsResult(rec, value) ==
    LET limit   == EffectiveLogLimit(rec.limit)
        logs    == [k \in 1..rec.count |-> k]
        limited == Len(logs) > limit
        out     == IF limited THEN Slice(logs, limit) ELSE logs
    IN  [success |-> TRUE, tool |-> rec.tool, logs |-> out, name |-> rec.job_name,
         summary |-> [total_logs_returned |-> Len(out), recent_executions |-> Len(out),
                      limited |-> limited,
                      limit_applied |-> IF limited THEN Some(limit) ELSE None]]

\* tools/job_management.py, lines 188-226: the jobs, filtered and truncated,
\* and their summary.
ListResult(rec) ==
    LET include_paused == Get(rec.include_paused, PyBool(TRUE))
        limit    == Get(rec.limit, PyInt(50))
        filtered == IF ~Truthy(include_paused)
                    THEN SelectSeq(rec.listing, LAMBDA st : st # "paused")
                    ELSE rec.listing
    IN  IF Truthy(limit) /\ ~IsInstanceInt(limit)
        THEN UnexpectedEnvelope(BuiltinException("TypeError",
                <<"'>' not supported between instances of 'int' and '", limit.type, "'">>))
        ELSE LET limited == Truthy(limit) /\ Len(filtered) > limit.num
                 out     == IF limited THEN Slice(filtered, limit.num) ELSE filtered
             IN  [success |-> TRUE, tool |-> rec.tool, jobs |-> out,
                  summary |-> [total_count |-> Len(out),
                               status_breakdown |-> StatusBreakdown(out),
                               limited |-> limited,
                               limit_applied |-> IF limited THEN Some(limit.num) ELSE None]]

\* The handler's code after the scope, on a returned value.
SuccessResult(rec, value) ==
    CASE rec.tool = "list_jobs" -> ListResult(rec)
      [] value.shape # "object" -> NoGetEnvelope
      [] rec.tool = "get_job_logs" -> LogsResult(rec, value)
      [] rec.tool = "delete_job" ->
            [success |-> TRUE, tool |-> rec.tool, deleted |-> TRUE, job_id |-> rec.job_id,
             message |-> <<"Job '", rec.job_name, "' has been permanently deleted">>]
      [] OTHER ->
            [success |-> TRUE, tool |-> rec.tool, job |-> value, name |-> rec.job_name]

CloseFailure == BuiltinException("RuntimeError", <<"close failed">>)

\* tools/health_check.py, lines 131-155: the report, after an exception
\* left the scope (raised) or not.
HealthReport(h, raised) ==
    LET r == IF raised
             THEN [h EXCEPT !.status = "error", !.connectivity = FALSE,
                            !.authentication = FALSE,
                            !.errors = Append(@, "Unexpected error"),
                            !.error_type = Some(CloseFailure.class),
                            !.recommendations = Append(@, "An unexpected error occurred.")]
             ELSE h
    IN  [tool |-> "health_check", report |-> r,
         summary |-> CASE r.status = "healthy" -> "healthy and working correctly"
                       [] r.status = "unhealthy" -> "has issues but is partially working"
                       [] OTHER -> "connection failed"]

\* What the handler returns once the scope has been left; closeRaised says
\* whether closing the client raised.
HandlerResult(rec, closeRaised) ==
    IF rec.tool = "health_check" THEN HealthReport(rec.health, closeRaised)
    ELSE IF closeRaised THEN HandlerExcept(CloseFailure)
    ELSE IF rec.pending.type = "raise" THEN HandlerExcept(rec.pending.exc)
    ELSE SuccessResult(rec, rec.pending.value)

(***************************************************************************)
(* Tool invocations as state machines                                      *)
(***************************************************************************)
\* A handler is called: its code up to the first request (validation, the
\* confirmation check, the client's construction and connect()).
ToolInvoke(i, tool, args) ==
    /\ inv[i].pc = "idle"
    /\ LET pre == Preflight(tool, args)
           con == Connect(clients, sessions, ClientOf(i))
       IN  IF pre.go
           THEN /\ inv' = [inv EXCEPT ![i] =
                            [IdleInvocation EXCEPT !.pc = "loop", !.tool = tool,
                                !.confirm = args.confirm, !.input = args.data,
                                !.limit = args.limit, !.include_paused = args.include_paused,
                                !.validation = pre.validation,
                                !.job_id = pre.job_id, !.data = pre.data,
                                !.opened = TRUE, !.call = FirstCall(tool)]]
                /\ clients' = con.clients
                /\ sessions' = con.sessions
           ELSE /\ inv' = [inv EXCEPT ![i] =
                            [IdleInvocation EXCEPT !.pc = "returned", !.tool = tool,
                                !.confirm = args.confirm, !.input = args.data,
                                !.limit = args.limit, !.include_paused = args.include_paused,
                                !.validation = pre.validation,
                                !.job_id = pre.job_id, !.result = pre.result]]
                /\ UNCHANGED <<clients, sessions>>
    /\ UNCHANGED <<reqVars, utilVars, remote>>

\* The request body each client method sends (lines 232 and 268).
CallPayload(rec) ==
    IF rec.call \in {"create_job", "update_job"} THEN Some(rec.data) ELSE None

\* The service may have processed a request whose attempt timed out on the
\* client's side or was answered; it has not when no connection was made or
\* the request was never sent.
ReachesService(r) == r.type \in {"timeout", "response"}

\* One iteration of the retry loop of the client method the handler awaits
\* (the connect() of line 106 before the first one), and the handler's code
\* that follows when the method returns or raises.
ToolAttempt(i, r, nm, rt, jc, js) ==
    /\ inv[i].pc = "loop"
    /\ LET rec  == inv[i]
           c    == ClientOf(i)
           con  == IF rec.attempt = 0 THEN Connect(clients, sessions, c)
                   ELSE [clients |-> clients, sessions |-> sessions]
           sid  == con.clients[c].session
           open == ~con.sessions[sid].closed
           ep   == CallEndpoint(rec.call, rec.job_id)
           \* a request on a closed session raises RuntimeError("Session is closed")
           got  == IF open THEN r ELSE Failure("exception")
           sent == [rec EXCEPT !.sent = Append(@,
                        [method |-> CallMethod(rec.call), endpoint |-> ep, session |-> sid,
                         open |-> open, payload |-> CallPayload(rec)])]
       IN  /\ clients' = con.clients
           /\ sessions' = con.sessions
           /\ IF rec.attempt < config.max_retries + 1
              THEN LET res == OneAttempt(got, ep, rec.attempt, config)
                   IN  IF res.type = "continue"
                       THEN IF rec.attempt < config.max_retries
                            THEN inv' = [inv EXCEPT ![i] = [sent EXCEPT !.pc = "backoff"]]
                            ELSE inv' = [inv EXCEPT ![i] = [sent EXCEPT !.attempt = @ + 1]]
                       ELSE inv' = [inv EXCEPT ![i] = AfterCall(sent, res, nm, rt, jc, js)]
              ELSE inv' = [inv EXCEPT ![i] =
                            AfterCall(rec, Raise(APIError(<<"Maximum retries exceeded">>,
                                                          None, None)), nm, rt, jc, js)]
           /\ remote' = IF rec.attempt < config.max_retries + 1
                           /\ ReachesService(got)
                           /\ CallMethod(rec.call) = "POST" /\ ep = JobsPath
                        THEN remote + 1 ELSE remote
    /\ UNCHANGED <<reqVars, utilVars>>

\* The backoff sleep of the client method the handler awaits.
ToolSleep(i) ==
    /\ inv[i].pc = "backoff"
    /\ inv' = [inv EXCEPT ![i].pc = "loop", ![i].attempt = @ + 1]
    /\ UNCHANGED <<reqVars, clients, sessions, remote, utilVars>>

\* How closing a session can end: it closes, or the close raises and the
\* session is left closed or open.
CloseOutcomes == {"closed", "raised_closed", "raised_open"}

\* The scope is left (__aexit__ closes the client) and the handler returns.
ToolExit(i, co) ==
    /\ inv[i].pc = "exit"
    /\ sessions' = IF co = "raised_open" THEN sessions
                   ELSE Close(clients, sessions, ClientOf(i))
    /\ inv' = [inv EXCEPT ![i].pc = "returned",
                          ![i].closeRaised = (co # "closed"),
                          ![i].result = HandlerResult(inv[i], co # "closed")]
    /\ UNCHANGED <<reqVars, clients, remote, utilVars>>

(***************************************************************************)
(* Inputs                                                                  *)
(***************************************************************************)
JobIdSamples ==
    { Missing, PyNone, PyInt(7), Str(<<>>), Str(<<" ", " ">>), Str(<<"a", "b">>),
      Str(SampleJobId), Str(<<" ", "j", "o", "b", "-", "1", "\n">>) }

ConfirmSamples ==
    { Missing, PyNone, PyBool(FALSE), PyBool(TRUE), PyInt(0), PyInt(1),
      Str(<<>>), Str(<<"f", "a", "l", "s", "e">>) }

ValidData ==
    [name |-> Str(<<"n", "i", "g", "h", "t", "l", "y">>), url |-> Str(<<"h", "t", "t", "p", "s", ":", "/", "/", "h", ".", "i", "o", "/", "x">>),
     method |-> Str(<<"P", "O", "S", "T">>), headers |-> PyDict(<<>>), body |-> Str(<<>>),
     cron_expression |-> Str(<<"0", " ", "2", " ", "*", " ", "*", " ", "*">>)]

\* Valid, but not in normal form: surrounding whitespace, a lower-case
\* method, null headers and body.
LooseData ==
    [name |-> Str(<<" ", "j", "o", "b", "_", "2", " ">>), url |-> Str(<<" ", "H", "T", "T", "P", ":", "/", "/", "h", " ">>),
     method |-> Str(<<"g", "e", "t">>), headers |-> PyNone, body |-> PyNone,
     cron_expression |-> Str(<<" ", "*", "/", "5", " ", "*", " ", "*", " ", "*", " ", "*", " ">>)]

JobDataSamples ==
    { ValidData, LooseData,
      [ValidData EXCEPT !.headers = PyDict(<< [k |-> Str(<<" ", "X", "-", "A", " ">>), v |-> Str(<<" ", "1", " ">>)] >>)],
      [ValidData EXCEPT !.name = Str(<<"b", "a", "d", " ", "n", "a", "m", "e", "!">>)],
      [ValidData EXCEPT !.name = Str(<<"b", "a", "d", " ", "n", "a", "m", "e", "!">>), !.url = Str(<<"n", "o", "t", "-", "a", "-", "u", "r", "l">>),
                        !.cron_expression = Str(<<"i", "n", "v", "a", "l", "i", "d", " ", "c", "r", "o", "n">>)],
      [ValidData EXCEPT !.name = Str(<<"b", "a", "d", " ", "n", "a", "m", "e", "!">>), !.url = Str(<<"n", "o", "t", "-", "a", "-", "u", "r", "l">>),
                        !.method = Missing, !.headers = Missing, !.body = Missing,
                        !.cron_expression = Str(<<"i", "n", "v", "a", "l", "i", "d", " ", "c", "r", "o", "n">>)],
      [ValidData EXCEPT !.headers = PyDict(<< [k |-> Str(<<" ", "X">>), v |-> Str(<<"1">>)],
                                              [k |-> Str(<<"X">>), v |-> Str(<<" ", "2", " ">>)] >>),
                        !.cron_expression = Str(<<"*", "/", "5", " ", " ", "*", " ", "*", " ", "*", " ", "*">>)],
      [ValidData EXCEPT !.name = PyInt(5)],
      [ValidData EXCEPT !.name = Missing, !.url = Str(<<>>)],
      [ValidData EXCEPT !.url = Str(<<"f", "t", "p", ":", "/", "/", "h">>)],
      [ValidData EXCEPT !.url = Str(<<"h", "t", "t", "p", "s", ":", "/", "/">>)],
      [ValidData EXCEPT !.method = Str(<<"F", "E", "T", "C", "H">>)],
      [ValidData EXCEPT !.method = Missing, !.headers = Missing, !.body = Missing],
      [ValidData EXCEPT !.headers = Str(<<"x">>)],
      [ValidData EXCEPT !.headers = PyDict(<< [k |-> Str(<<" ">>), v |-> Str(<<"1">>)] >>)],
      [ValidData EXCEPT !.headers = PyDict(<< [k |-> Str(<<"X", "-", "A">>), v |-> PyInt(1)] >>)],
      [ValidData EXCEPT !.body = PyInt(3)],
      [ValidData EXCEPT !.cron_expression = Str(<<"*", " ", "*", " ", "*">>)],
      [ValidData EXCEPT !.cron_expression = Str(<<"6", "1", " ", "*", " ", "*", " ", "*", " ", "*">>)],
      [ValidData EXCEPT !.cron_expression = Str(<<"a", " ", "*", " ", "*", " ", "*", " ", "*">>)] }

\* Values of the limit argument of get_job_logs: absent, in and around the
\* range [1, 100], and values that are not integers.
LogLimitSamples ==
    { Missing, PyNone, PyInt(-1), PyInt(0), PyInt(1), PyInt(2), PyInt(20), PyInt(100),
      PyInt(101), PyInt(150), Str(<<"2">>), PyBool(TRUE), PyBool(FALSE) }

\* Values of the limit argument of list_jobs.
ListLimitSamples ==
    { Missing, PyNone, PyInt(-1), PyInt(0), PyInt(1), PyInt(2), PyInt(150), Str(<<"2">>) }

IncludePausedSamples == { Missing, PyBool(TRUE), PyBool(FALSE) }

\* The arguments a tool reads.
ArgsOf(tool) ==
    [job_id  : IF tool \in JobIdTools THEN JobIdSamples ELSE {Missing},
     confirm : IF tool = "delete_job" THEN ConfirmSamples ELSE {Missing},
     data    : IF tool \in JobDataTools THEN JobDataSamples ELSE {NoData},
     limit   : CASE tool = "get_job_logs" -> LogLimitSamples
                 [] tool = "list_jobs"    -> ListLimitSamples
                 [] OTHER                 -> {Missing},
     include_paused : IF tool = "list_jobs" THEN IncludePausedSamples ELSE {Missing}]

\* The transport outcome makes the client method return (line 131).
Returns(r) == r.type = "response" /\ r.status = 200

\* The choices a step of ToolAttempt reads, for the call in progress, when
\* the client method returns.
NamesAt(i) == IF inv[i].call \in {"ping", "list_jobs"} THEN {None} ELSE BodyNames
TimesAt(i) == IF inv[i].call = "ping" THEN ResponseTimes ELSE {0}
CountsAt(i) == IF inv[i].tool = "health_check" /\ inv[i].call = "list_jobs"
               THEN JobCounts
               ELSE IF inv[i].call = "get_job_logs" THEN LogCounts ELSE {0}
ListingsAt(i) == IF inv[i].tool = "list_jobs" THEN JobListings ELSE {<<>>}

(***************************************************************************)
(* Specifications                                                          *)
(***************************************************************************)
ReqIdle ==
    /\ endpoint = JobPath(SampleJobId)
    /\ rpc = "idle"
    /\ attempt = 0
    /\ events = <<>>
    /\ response = NoResponse
    /\ outcome = NoOutcome

ToolIdle(n) ==
    /\ inv = [i \in 1..n |-> IdleInvocation]
    /\ clients = [c \in 1..NumInvocations |-> [session |-> NoSession]]
    /\ sessions = <<>>
    /\ remote = 0

CronIdle ==
    cron = [pc |-> "idle", expression |-> <<>>, accepted |-> FALSE, count |-> 0, times |-> <<>>]

\* get_auth_config has not been called.
AuthIdle == auth = [pc |-> "idle"]

\* The operations the monitor is told about: the tool calls of server.py,
\* and one more, recorded through performance_context.
OperationNames == {"tool_call", "other"}

\* No PerformanceMetrics for an operation yet, with the defaults of
\* performance.py, lines 21-27, for when it is made.
NoMetrics == [present |-> FALSE, total_calls |-> 0, error_count |-> 0, recent_times |-> <<>>]

\* PerformanceMonitor.__init__ (performance.py, lines 66-69): no metrics yet;
\* calls and raised count the handle_call_tool invocations and how many of
\* them raised.
PerfIdle ==
    perf = [calls |-> 0, raised |-> 0, metrics |-> [n \in OperationNames |-> NoMetrics]]

CacheKeys == {"a", "b"}

\* What the latest cache operation was and what it returned.
CacheOp(op, key, returned, count) ==
    [op |-> op, key |-> key, returned |-> returned, count |-> count]

\* CacheManager.__init__ (performance.py, lines 234-237): an empty cache.
\* `now` is the clock; `log` remembers per key the latest set (its value,
\* time and ttl argument) and whether the entry was removed since.
CacheIdle ==
    cache = [default_ttl |-> 2, now |-> 0,
             entries |-> [k \in CacheKeys |-> None],
             log     |-> [k \in CacheKeys |-> None],
             last    |-> CacheOp("none", "", None, 0)]

UtilIdle == CronIdle /\ AuthIdle /\ PerfIdle /\ CacheIdle

\* One call of _make_request, for every configuration and transport.
Init == ReqInit /\ ToolIdle(1) /\ UtilIdle
Next ==
    \/ RequestStart
    \/ RequestAttempt
    \/ RequestSleep
Spec == Init /\ [][Next]_vars

\* One tool invocation, for every tool, argument and transport.
ToolInit == config \in Configs /\ ReqIdle /\ ToolIdle(1) /\ UtilIdle
ToolNext ==
    \/ \E tool \in Tools : \E args \in ArgsOf(tool) : ToolInvoke(1, tool, args)
    \/ \E r \in Transport :
            \E nm \in IF Returns(r) THEN NamesAt(1) ELSE {None},
               rt \in IF Returns(r) THEN TimesAt(1) ELSE {0},
               jc \in IF Returns(r) THEN CountsAt(1) ELSE {0},
               js \in IF Returns(r) THEN ListingsAt(1) ELSE {<<>>} :
                ToolAttempt(1, r, nm, rt, jc, js)
    \/ ToolSleep(1)
    \/ \E co \in CloseOutcomes : ToolExit(1, co)
ToolSpec == ToolInit /\ [][ToolNext]_vars

\* Concurrent tool invocations, interleaved at their await points.
ConcTools == {"get_job", "delete_job"}
ConcArgs == [job_id : {Str(SampleJobId)}, confirm : {PyBool(TRUE)}, data : {NoData},
             limit : {Missing}, include_paused : {Missing}]
ConcTransport ==
    { Failure("timeout"),
      [type |-> "response", status |-> 200, body |-> NoBody, retry_after |-> NoHeader],
      [type |-> "response", status |-> 404, body |-> NoBody, retry_after |-> NoHeader] }

ConcInit ==
    /\ config \in {c \in Configs : c.retry_delay = 1 /\ c.max_retries = 1}
    /\ ReqIdle
    /\ ToolIdle(NumInvocations)
    /\ UtilIdle
ConcNext ==
    \/ \E i \in 1..NumInvocations, tool \in ConcTools, args \in ConcArgs :
            ToolInvoke(i, tool, args)
    \/ \E i \in 1..NumInvocations, r \in ConcTransport :
            ToolAttempt(i, r, None, 0, 0, <<>>)
    \/ \E i \in 1..NumInvocations : ToolSleep(i)
    \/ \E i \in 1..NumInvocations : ToolExit(i, "closed")
ConcSpec == ConcInit /\ [][ConcNext]_vars

(***************************************************************************)
(* Properties of _make_request (checked under Spec)                        *)
(***************************************************************************)
AttemptIndexes == {k \in 1..Len(events) : events[k].type = "attempt"}
SleepIndexes   == {k \in 1..Len(events) : events[k].type = "sleep"}
AllTimeouts    == \A k \in AttemptIndexes : events[k].class = "timeout"

\* C1: with max_retries = N and every attempt timing out, a finished call
\* has made exactly N+1 attempts and N sleeps, alternating, the k-th sleep
\* (k = 0..N-1) lasting retry_delay * 2^k, with no sleep after the last
\* attempt, and it has raised Timeout; before that nothing is raised.
C1_RetryBudget ==
    AllTimeouts =>
        /\ rpc # "done" => outcome = NoOutcome
        /\ rpc = "done" =>
            /\ Len(events) = 2 * config.max_retries + 1
            /\ \A k \in 0..config.max_retries :
                    /\ events[2 * k + 1].type = "attempt"
                    /\ events[2 * k + 1].n = k
            /\ \A k \in 0..(config.max_retries - 1) :
                    /\ events[2 * k + 2].type = "sleep"
                    /\ events[2 * k + 2].delay = config.retry_delay * (2 ^ k)
            /\ outcome.type = "raise"
            /\ outcome.exc.class = "TimeoutError"

C1_Witness ==
    /\ rpc = "done"
    /\ AllTimeouts
    /\ config.max_retries = 2
    /\ config.retry_delay = 3
    /\ Cardinality(AttemptIndexes) = 3
    /\ Cardinality(SleepIndexes) = 2

\* C2: an attempt answered with status 401, 403, 404 or 429 is the only
\* attempt of its call and no sleep follows it, whatever the body and the
\* headers of the response are.
C2_NonRetryableOnce ==
    \A k \in AttemptIndexes :
        events[k].class \in {"401", "403", "404", "429"} =>
            /\ rpc = "done"
            /\ k = Len(events)

\* C3: an attempt answered with status 422 is never retried, and the call
\* raises an APIError carrying status code 422 and the response data.
C3_ValidationNotRetried ==
    \A k \in AttemptIndexes :
        events[k].class = "422" =>
            /\ rpc = "done"
            /\ k = Len(events)
            /\ outcome.type = "raise"
            /\ outcome.exc.class = "APIError"
            /\ outcome.exc.details.status_code = Some(422)
            /\ outcome.exc.details.response_data = response.body

NamedStatuses == {200, 401, 403, 404, 422, 429}

\* The latest attempt was answered by a response of status st.
Answered(st) ==
    /\ events # <<>>
    /\ events[Len(events)].type = "attempt"
    /\ response.type = "response"
    /\ response.status = st

\* C9: when a call ends on a response with a JSON object body whose status
\* is none of 200, 401, 403, 404, 422, 429, the caller receives an APIError
\* whose message is the body's detail when present and "HTTP <status>"
\* otherwise, and whose details carry the status code.
C9_GenericError ==
    \A st \in Statuses \ NamedStatuses :
        (rpc = "done" /\ Answered(st) /\ response.body.shape = "object") =>
            /\ outcome.type = "raise"
            /\ outcome.exc.class = "APIError"
            /\ outcome.exc.message =
                    IF response.body.detail.tag = "absent"
                    THEN <<"HTTP ", ToString(st)>>
                    ELSE <<DetailText(response.body.detail)>>
            /\ outcome.exc.details.status_code = Some(st)

\* C10: a response of status 401, 403, 404 or 429 ends the call with the
\* error kind of that status, for every body and header: Authentication;
\* Authorization (with plan, current_count and max_allowed of a detail map
\* that has job_count); NotFound; RateLimit (with the Retry-After value).
C10_StatusKinds ==
    /\ \A st \in {401, 403, 404, 429} :
            Answered(st) => rpc = "done" /\ outcome.type = "raise"
    /\ Answered(401) => outcome.exc.class = "AuthenticationError"
    /\ Answered(403) =>
            /\ outcome.exc.class = "AuthorizationError"
            /\ HasJobCount(response.body.detail) =>
                    /\ outcome.exc.details.plan = response.body.detail.map.plan
                    /\ outcome.exc.details.current_count = response.body.detail.map.job_count
                    /\ outcome.exc.details.max_allowed = response.body.detail.map.max_jobs
    /\ Answered(404) => outcome.exc.class = "NotFoundError"
    /\ Answered(429) =>
            /\ outcome.exc.class = "RateLimitError"
            /\ response.retry_after.text = <<"3", "0">> =>
                    outcome.exc.details.retry_after = Some(30)

(***************************************************************************)
(* Properties of the tool handlers (checked under ToolSpec)                *)
(***************************************************************************)
Invocations == DOMAIN inv

Requests(i, method) == {k \in 1..Len(inv[i].sent) : inv[i].sent[k].method = method}

\* The session of the client that invocation i constructed.
SessionOf(i) == clients[ClientOf(i)].session

\* C4: a delete_job call whose confirm argument is not the boolean true
\* never sends a DELETE request and returns success = false with the error
\* "Confirmation Required", whatever its other arguments are.
C4_DeleteNeedsConfirm ==
    \A i \in Invocations :
        (inv[i].tool = "delete_job" /\ inv[i].confirm # PyBool(TRUE)) =>
            /\ Requests(i, "DELETE") = {}
            /\ inv[i].pc = "returned"
            /\ inv[i].result.success = FALSE
            /\ inv[i].result.error = "Confirmation Required"

C6_EveryTaxonomyErrorEnveloped ==
    \A i \in Invocations :
        inv[i].pc = "returned" =>
            /\ "propagated" \notin DOMAIN inv[i].result
            /\ \A e \in inv[i].raised :
                    e.class \in TaxonomyClasses =>
                        inv[i].result = [success |-> FALSE, error |-> e.class,
                                         message |-> e.message, details |-> e.details]

\* C6 (amended): every handler that has finished has returned a result (an
\* envelope with a success member, or the health report) and not an
\* exception; when a taxonomy error left the client scope of a job handler
\* and closing the client did not raise, the result is {success: false,
\* error: <the error's kind>, message, details} with the error's message
\* and details.
C6_NoExceptionEscapes ==
    \A i \in Invocations :
        inv[i].pc = "returned" =>
            /\ "propagated" \notin DOMAIN inv[i].result
            /\ IF inv[i].tool = "health_check"
               THEN "report" \in DOMAIN inv[i].result
               ELSE "success" \in DOMAIN inv[i].result
            /\ (/\ inv[i].tool # "health_check"
                /\ ~inv[i].closeRaised
                /\ inv[i].pending.type = "raise"
                /\ inv[i].pending.exc.class \in TaxonomyClasses) =>
                    inv[i].result = [success |-> FALSE,
                                     error   |-> inv[i].pending.exc.class,
                                     message |-> inv[i].pending.exc.message,
                                     details |-> inv[i].pending.exc.details]

C6_Witness ==
    /\ inv[1].pc = "returned"
    /\ inv[1].tool = "create_job"
    /\ inv[1].closeRaised
    /\ inv[1].pending.type = "raise"
    /\ inv[1].pending.exc.class = "RateLimitError"
    /\ inv[1].result.error = "Unexpected Error"

\* C7: when a handler that opened a client context has returned, and the
\* close itself did not raise, the client's session is closed, on every
\* exit path.
C7_SessionClosedOnReturn ==
    \A i \in Invocations :
        (inv[i].pc = "returned" /\ inv[i].opened /\ ~inv[i].closeRaised) =>
            /\ SessionOf(i) # NoSession
            /\ sessions[SessionOf(i)].closed
            /\ \A k \in 1..Len(sessions) : sessions[k].closed

C7_Witness ==
    /\ inv[1].pc = "returned"
    /\ inv[1].opened
    /\ ~inv[1].closeRaised
    /\ inv[1].pending.type = "raise"
    /\ inv[1].pending.exc.class = "TimeoutError"
    /\ Len(inv[1].sent) = 3
    /\ sessions[SessionOf(1)].closed

(***************************************************************************)
(* Properties of concurrent invocations (checked under ConcSpec)           *)
(***************************************************************************)
InScope(i) == inv[i].pc \in {"loop", "backoff", "exit"}

\* C8: each invocation has a client and a session of its own: while it is
\* inside its scope its session is open, whatever other invocations have
\* closed; every attempt it sent went out on its own session, open at that
\* time; no two invocations ever share a session.
C8_OwnSession ==
    \A i \in Invocations :
        /\ InScope(i) =>
                /\ SessionOf(i) # NoSession
                /\ ~sessions[SessionOf(i)].closed
        /\ \A k \in 1..Len(inv[i].sent) :
                /\ inv[i].sent[k].open
                /\ inv[i].sent[k].session = SessionOf(i)
        /\ \A j \in Invocations \ {i} :
                (inv[i].opened /\ inv[j].opened) => SessionOf(i) # SessionOf(j)

C8_Witness ==
    /\ inv[1].pc = "returned"
    /\ inv[1].opened
    /\ sessions[SessionOf(1)].closed
    /\ inv[2].pc = "loop"
    /\ inv[2].attempt = 1
    /\ inv[2].sent # <<>>
    /\ SessionOf(2) < SessionOf(1)

(***************************************************************************)
(* Further properties of _make_request (checked under Spec)                *)
(***************************************************************************)
\* C11: a call that ends on a 404 response raises a NotFound error whose
\* details carry the id of the job the endpoint addresses, for the endpoint
\* of the job itself and for the endpoint of an action on the job.
C11_NotFoundCarriesJobId ==
    (rpc = "done" /\ Answered(404)) =>
        /\ outcome.type = "raise"
        /\ outcome.exc.class = "NotFoundError"
        /\ outcome.exc.details.resource_id = SampleJobId

(***************************************************************************)
(* Further properties of the tool handlers (checked under ToolSpec)        *)
(***************************************************************************)
\* C12: in a delete_job call with confirm = true and a valid job_id, every
\* request is GET or DELETE /jobs/{id}, the first one is a GET and no GET
\* follows a DELETE; the scope is not left before a DELETE was sent, however
\* the GET ended; after a failed GET the message of a successful result
\* names the raw job id; and the result is {success: true, deleted: true}
\* exactly when the client's delete_job returned.
C12_DeleteAfterBestEffortGet ==
    \A i \in Invocations :
        (inv[i].tool = "delete_job" /\ inv[i].confirm = PyBool(TRUE) /\ inv[i].opened) =>
            /\ \A k \in 1..Len(inv[i].sent) :
                    /\ inv[i].sent[k].method \in {"GET", "DELETE"}
                    /\ inv[i].sent[k].endpoint = JobPath(inv[i].job_id)
            /\ \A d \in Requests(i, "DELETE") :
                    /\ Requests(i, "GET") # {}
                    /\ \A g \in Requests(i, "GET") : g < d
            /\ inv[i].pc \in {"exit", "returned"} => Requests(i, "DELETE") # {}
            /\ inv[i].pc = "returned" =>
                    /\ (inv[i].result.success /\ "deleted" \in DOMAIN inv[i].result)
                            <=> inv[i].pending.type = "return"
                    /\ (inv[i].result.success /\ inv[i].raised # None) =>
                            inv[i].result.message[2] = Some(inv[i].job_id)

\* The positions in JobFields of the members of d that are missing or that
\* their validator rejects.
BadFields(d) ==
    {k \in 1..Len(JobFields) :
        \/ d[JobFields[k]].type = "missing"
        \/ ~FieldValidator(JobFields[k], d[JobFields[k]]).ok}

\* C13: validate_complete_job_data, applied by create_job to its arguments:
\* when some fields are missing or invalid, the Validation error names the
\* earliest of them in the order name, url, method, headers, body,
\* cron_expression; when none is, the result holds the normalized value of
\* each of the six fields.
C13_FirstFailureInOrder ==
    \A i \in Invocations :
        inv[i].tool = "create_job" =>
            LET bad == BadFields(inv[i].input)
            IN  IF bad = {}
                THEN /\ inv[i].validation = "ok"
                     /\ inv[i].data = [f \in DOMAIN inv[i].input |->
                                            FieldValidator(f, inv[i].input[f]).value]
                ELSE /\ inv[i].validation # "ok"
                     /\ inv[i].validation = "ValidationError" =>
                            inv[i].result.field =
                                JobFields[CHOOSE k \in bad : \A j \in bad : k <= j]

\* C14: a get_job_logs call that succeeds uses the limit L = limit when the
\* argument is an integer (for Python: an int or a bool) in [1, 100] and
\* L = 20 otherwise; of the n logs the API returned it returns the first
\* min(L, n) in API order, with total_logs_returned = min(L, n),
\* limited = (n > L), and limit_applied = L when limited and null otherwise.
C14_LogsLimit ==
    \A i \in Invocations :
        (inv[i].tool = "get_job_logs" /\ inv[i].pc = "returned" /\ inv[i].result.success) =>
            LET arg == inv[i].limit
                L   == IF arg.type \in {"int", "bool"} /\ arg.num \in 1..100
                       THEN arg.num ELSE 20
                n   == inv[i].count
                m   == IF L < n THEN L ELSE n
            IN  /\ inv[i].result.logs = [k \in 1..m |-> k]
                /\ inv[i].result.summary.total_logs_returned = m
                /\ inv[i].result.summary.limited = (n > L)
                /\ inv[i].result.summary.limit_applied = IF n > L THEN Some(L) ELSE None

C14_Witness ==
    /\ inv[1].tool = "get_job_logs"
    /\ inv[1].pc = "returned"
    /\ inv[1].result.success
    /\ inv[1].limit = PyInt(150)
    /\ inv[1].count = 21
    /\ Len(inv[1].result.logs) = 20
    /\ inv[1].result.summary.limit_applied = Some(20)

\* The sum of the counts of a status breakdown.
RECURSIVE SumCounts(_, _)
SumCounts(f, keys) ==
    IF keys = {} THEN 0
    ELSE LET k == CHOOSE x \in keys : TRUE
         IN  f[k] + SumCounts(f, keys \ {k})

\* C15: a list_jobs call given an integer limit (or none: 50) succeeds and,
\* with F the jobs the API returned minus the paused ones when
\* include_paused is false, returns the first min(limit, |F|) jobs of F in
\* API order; limited is true exactly when |F| > limit, limit_applied is
\* the limit when limited and null otherwise, total_count is the number of
\* jobs returned and the counts of status_breakdown sum to total_count.
C15_ListFilterThenLimit ==
    \A i \in Invocations :
        (/\ inv[i].tool = "list_jobs" /\ inv[i].pc = "returned"
         /\ inv[i].pending.type = "return" /\ ~inv[i].closeRaised
         /\ inv[i].limit.type \in {"int", "missing"}) =>
            LET limit == IF inv[i].limit.type = "missing" THEN 50 ELSE inv[i].limit.num
                F == IF inv[i].include_paused = PyBool(FALSE)
                     THEN SelectSeq(inv[i].listing, LAMBDA st : st # "paused")
                     ELSE inv[i].listing
                m == IF limit < Len(F) THEN (IF limit > 0 THEN limit ELSE 0) ELSE Len(F)
                r == inv[i].result
            IN  /\ r.success
                /\ r.jobs = SubSeq(F, 1, m)
                /\ r.summary.limited = (Len(F) > limit)
                /\ r.summary.limit_applied = IF Len(F) > limit THEN Some(limit) ELSE None
                /\ r.summary.total_count = Len(r.jobs)
                /\ SumCounts(r.summary.status_breakdown, DOMAIN r.summary.status_breakdown)
                        = r.summary.total_count

\* client.ping() has returned or raised in invocation i.
PingEnded(i) == inv[i].ping.type \in {"return", "raise"}

\* C16: client.health_check() returns a result however ping ended: status
\* "healthy" and connected = true exactly when ping returned, and status
\* "unhealthy", connected = false and the text of the error when it raised.
C16_HealthCheckNeverRaises ==
    \A i \in Invocations :
        /\ (inv[i].tool = "health_check" /\ (inv[i].call = "list_jobs" \/ inv[i].pc \in {"exit", "returned"}))
                => (PingEnded(i) /\ inv[i].health_data.status \in {"healthy", "unhealthy"})
        /\ PingEnded(i) =>
                /\ (inv[i].health_data.status = "healthy" /\ inv[i].health_data.connected)
                        <=> inv[i].ping.type = "return"
                /\ inv[i].ping.type = "raise" =>
                        /\ inv[i].health_data.status = "unhealthy"
                        /\ ~inv[i].health_data.connected
                        /\ inv[i].health_data.error = Some(inv[i].ping.exc.message)
                        /\ inv[i].ping.exc.message # <<>>

C16_Witness ==
    /\ inv[1].tool = "health_check"
    /\ inv[1].ping.type = "raise"
    /\ inv[1].ping.exc.class = "AuthenticationError"
    /\ inv[1].health_data.status = "unhealthy"
    /\ inv[1].pc = "returned"

\* C17: in the report of a health_check call whose client measured the
\* response time t (milliseconds), performance is "excellent" if t < 200,
\* "good" if 200 <= t < 500, "fair" if 500 <= t < 1000 and "poor" if
\* t >= 1000; a report whose status is "healthy" has a performance rating.
C17_PerformanceRating ==
    \A i \in Invocations :
        (inv[i].tool = "health_check" /\ inv[i].pc = "returned") =>
            LET report == inv[i].result.report
            IN  /\ \A t \in inv[i].health_data.response_time_ms :
                        report.performance =
                            Some(CASE t < 200  -> "excellent"
                                   [] t >= 200 /\ t < 500  -> "good"
                                   [] t >= 500 /\ t < 1000 -> "fair"
                                   [] OTHER -> "poor")
                /\ report.status = "healthy" => report.performance # None

\* The members the input schema of update_job requires besides job_id, and
\* the ones it leaves optional (tools/job_management.py, lines 317-357).
SchemaRequired == {"name", "url", "cron_expression"}
SchemaOptional == {"method", "headers", "body"}

\* C18: an update_job call whose arguments hold a valid job_id, valid name,
\* url and cron_expression, and for each of method, headers and body either
\* nothing or a valid value, passes local validation, and what it sends is
\* PUT /jobs/{id} with a payload that has no job_id member; it does not
\* return before such a request was sent.
C18_UpdateAcceptsSchemaInputs ==
    \A i \in Invocations :
        (/\ inv[i].tool = "update_job"
         /\ inv[i].job_id # <<>>
         /\ \A f \in SchemaRequired :
                inv[i].input[f].type # "missing" /\ FieldValidator(f, inv[i].input[f]).ok
         /\ \A f \in SchemaOptional :
                inv[i].input[f].type = "missing" \/ FieldValidator(f, inv[i].input[f]).ok) =>
            /\ inv[i].validation = "ok"
            /\ inv[i].opened
            /\ inv[i].pc \in {"exit", "returned"} => inv[i].sent # <<>>
            /\ \A k \in 1..Len(inv[i].sent) :
                    /\ inv[i].sent[k].method = "PUT"
                    /\ inv[i].sent[k].endpoint = JobPath(inv[i].job_id)
                    /\ \A d \in inv[i].sent[k].payload : "job_id" \notin DOMAIN d

\* C19: when validate_complete_job_data accepted the job data of a call
\* and returned v, it accepts v as well and returns v unchanged.
C19_RevalidationNoOp ==
    \A i \in Invocations :
        (inv[i].tool \in JobDataTools /\ inv[i].validation = "ok") =>
            LET again == validate_complete_job_data(inv[i].data)
            IN  /\ again.ok
                /\ again.value = inv[i].data

C19_Witness ==
    /\ inv[1].tool = "create_job"
    /\ inv[1].validation = "ok"
    /\ inv[1].input = LooseData
    /\ inv[1].data # inv[1].input
    /\ inv[1].data.method = Str(<<"G", "E", "T">>)
    /\ inv[1].data.headers = PyDict(<<>>)
    /\ inv[1].data.body = Str(<<>>)

(***************************************************************************)
(* The cron utilities (utils/validation.py, lines 133-192 and 346-368)      *)
(***************************************************************************)
\* Expressions of five fields: valid forms, and for the minute and the hour
\* also a value out of range and a character outside the pattern.
CronExpressions ==
    {m \o <<" ">> \o h \o <<" ">> \o d \o <<" ">> \o mo \o <<" ">> \o w :
        m  \in {<<"*">>, <<"*", "/", "5">>, <<"0">>, <<"6", "1">>, <<"a">>},
        h  \in {<<"*">>, <<"2">>, <<"2", "4">>},
        d  \in {<<"*">>, <<"1">>, <<"1", "5">>},
        mo \in {<<"*">>, <<"2">>, <<"1", "3">>},
        w  \in {<<"*">>, <<"7">>}}

\* The k-th value of cron.get_next() on croniter(expression): croniter is
\* constructed without ret_type, so every value is a float (seconds since
\* the epoch), each later than the one before.
CroniterGetNext(expression, k) == [type |-> "float", nth |-> k]

\* next_time.isoformat() + "Z" (line 362): only a datetime has isoformat().
IsoFormatZ(v) ==
    IF v.type = "datetime" THEN Ok([nth |-> v.nth, text |-> "ISO-8601 Z"])
    ELSE Fail(BuiltinException("AttributeError",
                               <<"'", v.type, "' object has no attribute 'isoformat'">>))

\* Lines 360-362: the loop `for _ in range(count)`, from iteration k on.
RECURSIVE NextTimesLoop(_, _, _, _)
NextTimesLoop(expression, k, count, times) ==
    IF k > count THEN Ok(times)
    ELSE LET iso == IsoFormatZ(CroniterGetNext(expression, k))
         IN  IF iso.ok THEN NextTimesLoop(expression, k + 1, count, Append(times, iso.value))
             ELSE iso

\* get_next_execution_times: any exception gives the empty list (lines 366-367).
get_next_execution_times(expression, count) ==
    LET r == NextTimesLoop(expression, 1, count, <<>>)
    IN  IF r.ok THEN r.value ELSE <<>>

\* validate_cron_expression is applied to an expression.
CronValidate(e) ==
    /\ cron.pc = "idle"
    /\ cron' = [cron EXCEPT !.pc = "validated", !.expression = e,
                            !.accepted = validate_cron_expression(Str(e)).ok]
    /\ UNCHANGED <<reqVars, toolVars, auth, perf, cache>>

\* get_next_execution_times is applied to an accepted expression.
CronNextTimes(n) ==
    /\ cron.pc = "validated"
    /\ cron.accepted
    /\ cron' = [cron EXCEPT !.pc = "done", !.count = n,
                            !.times = get_next_execution_times(cron.expression, n)]
    /\ UNCHANGED <<reqVars, toolVars, auth, perf, cache>>

CronInit == config \in Configs /\ ReqIdle /\ ToolIdle(1) /\ UtilIdle
CronNext ==
    \/ \E e \in CronExpressions : CronValidate(e)
    \/ \E n \in 0..MaxCount : CronNextTimes(n)
CronSpec == CronInit /\ [][CronNext]_vars

\* C20: get_next_execution_times(expr, n), for an expression that
\* validate_cron_expression accepted and n >= 0, returns exactly n
\* timestamps, each later than the one before.
C20_NextTimesExactlyN ==
    cron.pc = "done" =>
        /\ Len(cron.times) = cron.count
        /\ \A j, k \in 1..Len(cron.times) : j < k => cron.times[j].nth < cron.times[k].nth

(***************************************************************************)
(* get_auth_config (utils/auth.py, lines 109-194)                          *)
(***************************************************************************)
HttpScheme  == <<"h", "t", "t", "p", ":", "/", "/">>
HttpsScheme == <<"h", "t", "t", "p", "s", ":", "/", "/">>

\* The default of AuthConfig.base_url (line 21).
DefaultBaseUrl ==
    HttpsScheme \o <<"a", "p", "i", ".", "c", "r", "o", "n", "l", "y", "t", "i", "c",
                     ".", "c", "o", "m", "/", "p", "r", "o", "g">>

\* The default of AuthConfig.max_retries (line 25).
DefaultMaxRetries == 3

\* str.startswith(prefix)
StartsWith(cs, prefix) == Len(cs) >= Len(prefix) /\ SubSeq(cs, 1, Len(prefix)) = prefix

\* str.rstrip("/")
RECURSIVE RStripSlash(_)
RStripSlash(cs) ==
    IF cs # <<>> /\ cs[Len(cs)] = "/" THEN RStripSlash(SubSeq(cs, 1, Len(cs) - 1)) ELSE cs

AuthKeys == {"api_key", "user_id", "base_url", "max_retries"}

\* dict.update with a source whose None values were filtered out
\* (lines 156-157 and 167-168): the later source wins where it has a value.
\* The mutant lets the earlier source win.
UpdateKeepsEarlier(data, source) ==
    [k \in AuthKeys |-> IF data[k] # None THEN data[k] ELSE source[k]]

UpdateWith(data, source) ==
    [k \in AuthKeys |-> IF source[k] # None THEN source[k] ELSE data[k]]

\* `not config_data.get(key)`: the key is absent or its value is empty.
LacksValue(data, key) == data[key] = None \/ data[key] = Some(<<>>)

\* The validators of AuthConfig (lines 28-61) and the conversion of
\* lines 187-188, on a config_data that has api_key and user_id.
AuthConfigOf(data) ==
    LET api_key  == CHOOSE v \in data.api_key : TRUE
        user_id  == CHOOSE v \in data.user_id : TRUE
        base_url == IF data.base_url = None THEN DefaultBaseUrl
                    ELSE CHOOSE v \in data.base_url : TRUE
        retries  == IF data.max_retries = None THEN <<>>
                    ELSE CHOOSE v \in data.max_retries : TRUE
        Invalid(msg) == Fail(AuthenticationError(<<"Invalid configuration: ", msg>>))
    IN  IF data.max_retries # None /\ ~IntParses(retries)
        THEN Invalid("invalid literal for int()")
        ELSE IF Strip(api_key) = <<>> THEN Invalid("API key cannot be empty")
        ELSE IF Strip(user_id) = <<>> THEN Invalid("User ID cannot be empty")
        ELSE IF data.base_url # None /\ ~StartsWith(base_url, HttpScheme)
                                     /\ ~StartsWith(base_url, HttpsScheme)
        THEN Invalid("Base URL must start with http:// or https://")
        ELSE Ok([api_key |-> Strip(api_key), user_id |-> Strip(user_id),
                 base_url |-> IF data.base_url = None THEN DefaultBaseUrl
                              ELSE RStripSlash(base_url),
                 max_retries |-> IF data.max_retries = None THEN DefaultMaxRetries
                                 ELSE DigitsValue(retries)])

\* Lines 136-194, for the three sources given per key (None: the source has
\* no value for the key).
get_auth_config(direct, env, file) ==
    LET config_data == UpdateWith(UpdateWith(file, env), direct)
    IN  IF LacksValue(config_data, "api_key")
        THEN Fail(AuthenticationError(<<"API key is required.">>))
        ELSE IF LacksValue(config_data, "user_id")
        THEN Fail(AuthenticationError(<<"User ID is required.">>))
        ELSE AuthConfigOf(config_data)

\* The sources the model draws: per key a value that names its source, the
\* empty string, a blank string, values that need stripping, a URL with
\* another scheme, an unparsable number.
DirectSamples ==
    [api_key : {None, Some(<<"d">>), Some(<<>>)},
     user_id : {None, Some(<<"d">>)},
     base_url : {None, Some(HttpsScheme \o <<"d", "/">>)},
     max_retries : {None}]
EnvSamples ==
    [api_key : {None, Some(<<"e">>), Some(<<>>), Some(<<" ">>)},
     user_id : {None, Some(<<"e">>), Some(<<>>)},
     base_url : {None, Some(HttpScheme \o <<"e">>), Some(<<>>)},
     max_retries : {None, Some(<<"2">>), Some(<<"x">>)}]
FileSamples ==
    [api_key : {None, Some(<<"f", " ">>), Some(<<>>)},
     user_id : {None, Some(<<"f">>)},
     base_url : {None, Some(HttpsScheme \o <<"f">>), Some(<<"f", "t", "p", ":", "/", "/", "f">>)},
     max_retries : {None}]

\* One call of get_auth_config.
GetAuthConfig(direct, env, file) ==
    /\ auth.pc = "idle"
    /\ auth' = [pc |-> "done", direct |-> direct, env |-> env, file |-> file,
                result |-> get_auth_config(direct, env, file)]
    /\ UNCHANGED <<reqVars, toolVars, cron, perf, cache>>

\* The request loop's configuration plays no part here: one is enough.
AuthInit ==
    /\ config = [max_retries |-> 0, retry_delay |-> 1]
    /\ ReqIdle /\ ToolIdle(1) /\ UtilIdle
AuthNext == \E direct \in DirectSamples, env \in EnvSamples, file \in FileSamples :
                GetAuthConfig(direct, env, file)
AuthSpec == AuthInit /\ [][AuthNext]_vars

\* The value the precedence of the specification selects for a key: the
\* explicit parameter, else the environment variable, else the file's value.
Selected(key) ==
    IF auth.direct[key] # None THEN auth.direct[key]
    ELSE IF auth.env[key] # None THEN auth.env[key]
    ELSE auth.file[key]

\* C21: for api_key, user_id and base_url, get_auth_config uses the explicit
\* parameter when given, else the environment variable when set, else the
\* config-file value, else (base_url only) the default, each as AuthConfig
\* normalises it; when api_key or user_id is missing or empty after all
\* sources, it raises AuthenticationError and returns no configuration.
C21_ConfigPrecedence ==
    auth.pc = "done" =>
        /\ (\E k \in {"api_key", "user_id"} : Selected(k) \in {None, Some(<<>>)})
                => ~auth.result.ok /\ auth.result.exc.class = "AuthenticationError"
        /\ auth.result.ok =>
                /\ \A k \in {"api_key", "user_id"} :
                        Some(auth.result.value[k]) = {Strip(v) : v \in Selected(k)}
                /\ Some(auth.result.value.base_url) =
                        IF Selected("base_url") = None THEN Some(DefaultBaseUrl)
                        ELSE {RStripSlash(v) : v \in Selected("base_url")}

\* A configuration was returned whose api_key came from the environment over
\* the file's, whose user_id came from the file and whose base_url is the default.
C21_Witness ==
    /\ auth.pc = "done" /\ auth.result.ok
    /\ auth.direct.api_key = None /\ auth.env.api_key # None /\ auth.file.api_key # None
    /\ Selected("user_id") = auth.file.user_id
    /\ Selected("base_url") = None
    /\ auth.result.value.base_url = DefaultBaseUrl

(***************************************************************************)
(* Termination of _make_request (checked under FairSpec)                   *)
(***************************************************************************)
\* One call for every max_retries, on one endpoint and one retry_delay; the
\* call keeps running: the event loop resumes it after every await.
FairInit ==
    /\ Init
    /\ endpoint = JobPath(SampleJobId)
    /\ config.retry_delay = 1
FairSpec == FairInit /\ [][Next]_vars /\ WF_vars(Next)

MaximumRetriesExceeded == APIError(<<"Maximum retries exceeded">>, None, None)

\* C22: every call of _make_request ends, by returning the body or by
\* raising an error of the taxonomy, after at most max_retries + 1 attempts,
\* whatever the attempts' outcomes are; it ends inside the retry loop, never
\* by the APIError("Maximum retries exceeded") that follows the loop.
C22_TerminatesInsideLoop ==
    /\ <>(rpc = "done")
    /\ [](Cardinality(AttemptIndexes) <= config.max_retries + 1)
    /\ [](rpc = "done" =>
            /\ outcome.type \in {"return", "raise"}
            /\ outcome.type = "raise" => outcome.exc.class \in TaxonomyClasses
            /\ outcome # Raise(MaximumRetriesExceeded)
            /\ attempt <= config.max_retries
            /\ events[Len(events)].type = "attempt")

\* A call that used its whole budget of three attempts on outcomes of three
\* different kinds and then ended.
C22_Witness ==
    /\ rpc = "done"
    /\ config.max_retries = 2
    /\ Cardinality(AttemptIndexes) = 3
    /\ Cardinality({events[k].class : k \in AttemptIndexes}) = 3

\* C23: when the attempts before attempt k failed by timeout or connection
\* failure and attempt k is answered with status 200, the call has ended by
\* returning the body, after exactly k+1 attempts and k sleeps, attempt i
\* followed by a sleep of retry_delay * 2^i (i = 0..k-1), and the answered
\* attempt is the last thing the call did.
C23_SuccessAfterRetries ==
    \A j \in AttemptIndexes :
        ( /\ events[j].class = "200"
          /\ \A i \in AttemptIndexes : i < j => events[i].class \in {"timeout", "connect"} )
        => LET k == events[j].n
           IN  /\ j = Len(events)
               /\ rpc = "done"
               /\ outcome = Return(response.body)
               /\ k <= config.max_retries
               /\ Len(events) = 2 * k + 1
               /\ \A i \in 0..(k - 1) :
                    /\ events[2 * i + 1].type = "attempt"
                    /\ events[2 * i + 1].n = i
                    /\ events[2 * i + 2].type = "sleep"
                    /\ events[2 * i + 2].delay = config.retry_delay * (2 ^ i)

\* A timeout, a connection failure, then status 200 on the last attempt allowed.
C23_Witness ==
    /\ rpc = "done"
    /\ config.max_retries = 2
    /\ config.retry_delay = 3
    /\ Len(events) = 5
    /\ events[1].class = "timeout"
    /\ events[3].class = "connect"
    /\ events[5].class = "200"
    /\ outcome.type = "return"

\* C24: an attempt answered with a 2xx status (200, 201, ...) ends the call
\* successfully: the call returns after that attempt, raises nothing and
\* sends nothing more.
C24_Any2xxSucceeds ==
    \A k \in AttemptIndexes :
        events[k].class \in {"200", "201"} =>
            /\ rpc = "done"
            /\ k = Len(events)
            /\ outcome.type = "return"

\* C25: one create_job_tool invocation creates at most one job: with a
\* service that creates a job for each POST /jobs it processes, at most one
\* POST /jobs of the invocation is one the service may have processed (a
\* POST /jobs is never sent again after an attempt that timed out or was
\* answered with a status other than 200).
C25_CreateAtMostOnce ==
    inv[1].tool = "create_job" => remote <= 1

\* C26: when a call has used its whole budget and raises, the error is
\* determined by the last attempt alone, whatever the earlier attempts
\* failed with: TimeoutError if it timed out, ConnectionError if it failed to
\* connect, APIError with an "Unexpected error" message if it failed in any
\* other way that is retried.
C26_LastAttemptDecides ==
    ( /\ rpc = "done"
      /\ outcome.type = "raise"
      /\ Cardinality(AttemptIndexes) = config.max_retries + 1 )
    => LET last == TryBody(response, endpoint)
       IN  /\ response.type = "timeout" => outcome.exc.class = "TimeoutError"
           /\ response.type = "connect" => outcome.exc.class = "ConnectionError"
           /\ ( /\ response.type \notin {"timeout", "connect"}
                /\ last.exc.class \notin NonRetryable )
              => /\ outcome.exc.class = "APIError"
                 /\ outcome.exc.message = <<"Unexpected error: ">> \o last.exc.message

\* Three attempts that failed in three different retryable ways, the last by
\* failing to connect, and the call raised ConnectionError.
C26_Witness ==
    /\ rpc = "done"
    /\ config.max_retries = 2
    /\ Len(events) = 5
    /\ events[1].class = "500"
    /\ events[3].class = "timeout"
    /\ events[5].class = "connect"
    /\ outcome.type = "raise"
    /\ outcome.exc.class = "ConnectionError"

(***************************************************************************)
(* One client object used by one caller (cronlytic_client.py, lines 43-71   *)
(* and 105-209): connect(), close() and requests in any order, one at a     *)
(* time                                                                     *)
(***************************************************************************)
\* connect(), directly or by entering the client's scope (__aenter__).
ClientConnect ==
    /\ inv[1].pc = "idle"
    /\ SessionOpen(clients, sessions, ClientOf(1)) \/ Len(sessions) < MaxSessions
    /\ LET con == Connect(clients, sessions, ClientOf(1))
       IN  clients' = con.clients /\ sessions' = con.sessions
    /\ UNCHANGED <<reqVars, inv, remote, utilVars>>

\* close(), directly or by leaving the client's scope (__aexit__).
ClientClose(co) ==
    /\ inv[1].pc = "idle"
    /\ sessions' = IF co = "raised_open" THEN sessions
                   ELSE Close(clients, sessions, ClientOf(1))
    /\ UNCHANGED <<reqVars, inv, clients, remote, utilVars>>

\* get_job(job_id) is called: _make_request starts (its connect() of line
\* 106 is part of the first step of the loop).
ClientCall ==
    /\ inv[1].pc = "idle"
    /\ Len(inv[1].sent) <= MaxSessions
    /\ SessionOpen(clients, sessions, ClientOf(1)) \/ Len(sessions) < MaxSessions
    /\ inv' = [inv EXCEPT ![1] = [IdleInvocation EXCEPT
                    !.pc = "loop", !.tool = "get_job", !.call = "get_job",
                    !.job_id = SampleJobId, !.sent = inv[1].sent]]
    /\ UNCHANGED <<reqVars, clients, sessions, remote, utilVars>>

\* The call returned or raised; the caller goes on.
ClientReturn ==
    /\ inv[1].pc = "exit"
    /\ inv' = [inv EXCEPT ![1] = [IdleInvocation EXCEPT !.sent = inv[1].sent]]
    /\ UNCHANGED <<reqVars, clients, sessions, remote, utilVars>>

ClientInit ==
    /\ config \in {c \in Configs : c.retry_delay = 1}
    /\ ReqIdle /\ ToolIdle(1) /\ UtilIdle
ClientNext ==
    \/ ClientConnect
    \/ \E co \in CloseOutcomes : ClientClose(co)
    \/ ClientCall
    \/ \E r \in ConcTransport : ToolAttempt(1, r, None, 0, 0, <<>>)
    \/ ToolSleep(1)
    \/ ClientReturn
ClientSpec == ClientInit /\ [][ClientNext]_vars

\* C27: a client makes its session on first use, never replaces a session
\* that is still open and sends every request on that session until it is
\* closed; connect() on an open session and close() on a closed or
\* never-opened session change nothing; every attempt is sent on an open
\* session.
C27_OneSessionUntilClose ==
    /\ [](\A k \in 1..Len(inv[1].sent) :
            /\ inv[1].sent[k].open
            /\ inv[1].sent[k].session # NoSession
            /\ inv[1].sent[k].session <= SessionOf(1))
    /\ [](\A j, k \in 1..Len(inv[1].sent) :
            (j < k /\ inv[1].sent[j].session # inv[1].sent[k].session)
                => /\ sessions[inv[1].sent[j].session].closed
                   /\ inv[1].sent[j].session < inv[1].sent[k].session)
    /\ [](inv[1].pc = "backoff" => SessionOpen(clients, sessions, ClientOf(1)))
    /\ [][ IF SessionOpen(clients, sessions, ClientOf(1))
           THEN \* the open session stays the client's session; it may be closed
                /\ clients' = clients
                /\ Len(sessions') = Len(sessions)
                /\ \A k \in 1..Len(sessions) :
                        k # SessionOf(1) => sessions'[k] = sessions[k]
           ELSE \* nothing changes, or first use makes one new open session
                \/ clients' = clients /\ sessions' = sessions
                \/ /\ sessions' = Append(sessions, [owner |-> ClientOf(1), closed |-> FALSE])
                   /\ clients'[ClientOf(1)].session = Len(sessions')
         ]_<<clients, sessions>>

\* The client sent two requests on a first session, was closed, and sent a
\* request on the second session, made on the next use.
C27_Witness ==
    /\ Len(sessions) = 2
    /\ sessions[1].closed
    /\ ~sessions[2].closed
    /\ Len(inv[1].sent) >= 3
    /\ inv[1].sent[1].session = 1
    /\ inv[1].sent[2].session = 1
    /\ inv[1].sent[Len(inv[1].sent)].session = 2
    /\ inv[1].pc = "idle"

\* C28: health_check_tool sends the trial list_jobs only when the ping
\* result is healthy, and a list_jobs that fails, with whatever error, leaves
\* the verdict as it was: when the scope is then left normally the report
\* has status "healthy", connectivity and authentication true, and the
\* failure has added can_list_jobs = false, one entry in errors and one
\* recommendation (besides the one a slow response time adds).
C28_TrialListKeepsVerdict ==
    \A i \in Invocations :
        inv[i].tool = "health_check" =>
            /\ (\E k \in 1..Len(inv[i].sent) : inv[i].sent[k].endpoint = JobsPath)
                    => inv[i].health_data.status = "healthy"
            /\ ( /\ inv[i].pc = "returned"
                 /\ inv[i].ping.type = "return"
                 /\ inv[i].raised # None
                 /\ ~inv[i].closeRaised )
               => LET report == inv[i].result.report
                      slow   == report.performance \in {Some("fair"), Some("poor")}
                  IN  /\ report.status = "healthy"
                      /\ report.connectivity
                      /\ report.authentication
                      /\ inv[i].result.summary = "healthy and working correctly"
                      /\ report.can_list_jobs = Some(FALSE)
                      /\ report.job_count = None
                      /\ report.error_type = None
                      /\ report.errors = <<"Failed to list jobs">>
                      /\ Len(report.recommendations) = IF slow THEN 2 ELSE 1
                      /\ report.recommendations[1] =
                            "Authentication succeeded but job listing failed. Check API permissions."

\* A healthy ping followed by a list_jobs that was refused with 401.
C28_Witness ==
    /\ inv[1].tool = "health_check"
    /\ inv[1].pc = "returned"
    /\ inv[1].ping.type = "return"
    /\ inv[1].raised # None
    /\ \A e \in inv[1].raised : e.class = "AuthenticationError"
    /\ inv[1].result.report.status = "healthy"
    /\ inv[1].result.report.can_list_jobs = Some(FALSE)

(***************************************************************************)
(* The performance monitor and the tracked handle_call_tool                 *)
(* (utils/performance.py, lines 16-165; server.py, lines 168-250)           *)
(***************************************************************************)
\* The number of recent times a PerformanceMetrics keeps (line 52).
RecentLimit == 100

\* PerformanceMetrics.add_measurement (lines 39-53).
add_measurement(m, execution_time, success) ==
    LET appended == Append(m.recent_times, execution_time)
    IN  [present      |-> TRUE,
         total_calls  |-> m.total_calls + 1,
         error_count  |-> IF success THEN m.error_count ELSE m.error_count + 1,
         recent_times |-> IF Len(appended) > RecentLimit THEN Tail(appended) ELSE appended]

\* PerformanceMonitor.record_operation (lines 71-80); the monitor is enabled
\* from its construction on and nothing disables it.
record_operation(metrics, operation_name, execution_time, success) ==
    [metrics EXCEPT ![operation_name] = add_measurement(@, execution_time, success)]

\* What the try block of handle_call_tool (server.py, lines 177-234) ends
\* in: get_auth_config raises, the tool is unknown, the tool's result is
\* formatted and returned, or formatting it raises.
CallEvents == {"config_error", "result", "format_error"}

HandleCallToolTry(name, ev) ==
    IF ev = "config_error"
    THEN Raise(AuthenticationError(<<"API key is required.">>))
    ELSE IF name \notin Tools THEN Return(<<"Error: Unknown tool: ", name>>)
    ELSE IF ev = "format_error"
    THEN Raise(BuiltinException("KeyError", <<"'job'">>))
    ELSE Return(<<"result of ", name>>)

\* A handle_call_tool without its `except Exception` clause.
handle_call_tool_narrow(name, ev) ==
    LET out == HandleCallToolTry(name, ev)
    IN  IF out.type = "raise" /\ out.exc.class \in TaxonomyClasses
        THEN Return(<<"Error: Cronlytic API error: ">> \o out.exc.message)
        ELSE out

\* handle_call_tool (server.py, lines 170-250): the try block and its two
\* except clauses.
handle_call_tool(name, ev) ==
    LET out == HandleCallToolTry(name, ev)
    IN  IF out.type = "raise" /\ out.exc.class \in TaxonomyClasses
        THEN Return(<<"Error: Cronlytic API error: ">> \o out.exc.message)
        ELSE IF out.type = "raise"
        THEN Return(<<"Error: Unexpected error: ">> \o out.exc.message)
        ELSE out

\* One invocation of the tracked handle_call_tool: the wrapper of
\* performance_tracked("tool_call") (performance.py, lines 150-162) around
\* it.  The measured times are told apart by the invocation they measure.
HandleCallTool(name, ev) ==
    /\ perf.calls < MaxCalls
    /\ LET out     == handle_call_tool(name, ev)
           success == out.type # "raise"
       IN  perf' = [calls   |-> perf.calls + 1,
                    raised  |-> IF success THEN perf.raised ELSE perf.raised + 1,
                    metrics |-> record_operation(perf.metrics, "tool_call",
                                                 perf.calls + 1, success)]
    /\ UNCHANGED <<reqVars, toolVars, cron, auth, cache>>

\* A block run under performance_context("other") (lines 168-181) ends,
\* normally or by an exception.
TrackedBlock(success) ==
    /\ perf.metrics["other"].total_calls < MaxRecords
    /\ perf' = [perf EXCEPT !.metrics = record_operation(@, "other", 1, success)]
    /\ UNCHANGED <<reqVars, toolVars, cron, auth, cache>>

PerfInit ==
    /\ config = [max_retries |-> 0, retry_delay |-> 1]
    /\ ReqIdle /\ ToolIdle(1) /\ UtilIdle
PerfNext ==
    \/ \E name \in Tools \cup {"no_such_tool"}, ev \in CallEvents : HandleCallTool(name, ev)
    \/ \E success \in BOOLEAN : TrackedBlock(success)
PerfSpec == PerfInit /\ [][PerfNext]_vars

\* C29: the "tool_call" metric has one measurement per handle_call_tool
\* invocation and counts as errors the invocations that raised; as
\* handle_call_tool returns text for every failure, its error_count is 0 and
\* its total_calls is the number of invocations.  Every PerformanceMetrics
\* has error_count <= total_calls and keeps the latest times, at most 100.
C29_ToolCallMetric ==
    LET m == perf.metrics["tool_call"]
        kept == IF perf.calls < RecentLimit THEN perf.calls ELSE RecentLimit
    IN  /\ m.total_calls = perf.calls
        /\ m.error_count = perf.raised
        /\ m.error_count = 0
        /\ m.present <=> perf.calls > 0
        /\ m.recent_times = [k \in 1..kept |-> perf.calls - kept + k]
        /\ \A n \in OperationNames :
                /\ perf.metrics[n].error_count <= perf.metrics[n].total_calls
                /\ Len(perf.metrics[n].recent_times) <= RecentLimit
                /\ Len(perf.metrics[n].recent_times) <= perf.metrics[n].total_calls

\* More than 100 tool calls were measured, the oldest times were dropped,
\* and another operation has failures on record.
C29_Witness ==
    /\ perf.calls = RecentLimit + 2
    /\ Len(perf.metrics["tool_call"].recent_times) = RecentLimit
    /\ perf.metrics["tool_call"].recent_times[1] = 3
    /\ perf.metrics["other"].error_count = 2
    /\ perf.metrics["other"].total_calls = 3

(***************************************************************************)
(* CacheManager (utils/performance.py, lines 231-298)                       *)
(***************************************************************************)
\* The ttl arguments of set: absent, zero, positive, negative.
TtlSamples == {None, Some(0), Some(1), Some(-1)}

\* A set that takes the default only for an absent ttl.
SetTtlIfAbsent(ttl, default_ttl) ==
    IF ttl = None THEN default_ttl ELSE CHOOSE t \in ttl : TRUE

\* Line 257: `ttl = ttl or self.default_ttl`.
SetTtl(ttl, default_ttl) ==
    IF ttl = None \/ ttl = Some(0) THEN default_ttl ELSE CHOOSE t \in ttl : TRUE

\* Removal of the entries of the keys ks, and its note in the log.
Removed(c, ks) ==
    [c EXCEPT !.entries = [k \in CacheKeys |-> IF k \in ks THEN None ELSE @[k]],
              !.log = [k \in CacheKeys |->
                            IF k \in ks /\ @[k] # None
                            THEN {[g EXCEPT !.removed = TRUE] : g \in @[k]} ELSE @[k]]]

\* set(key, value, ttl), lines 255-265.
CacheSet(key, value, ttl) ==
    /\ LET expires == cache.now + SetTtl(ttl, cache.default_ttl)
       IN  cache' = [cache EXCEPT
                !.entries[key] = Some([value |-> value, expires |-> expires]),
                !.log[key] = Some([value |-> value, at |-> cache.now, ttl |-> ttl,
                                   removed |-> FALSE]),
                !.last = CacheOp("set", key, None, 0)]
    /\ UNCHANGED <<reqVars, toolVars, cron, auth, perf>>

\* get(key), lines 239-253.
CacheGet(key) ==
    /\ LET hit == \E e \in cache.entries[key] : cache.now < e.expires
       IN  cache' = IF hit
                    THEN [cache EXCEPT !.last =
                            CacheOp("get", key, {e.value : e \in cache.entries[key]}, 0)]
                    ELSE IF cache.entries[key] # None
                    THEN [Removed(cache, {key}) EXCEPT !.last = CacheOp("get", key, None, 0)]
                    ELSE [cache EXCEPT !.last = CacheOp("get", key, None, 0)]
    /\ UNCHANGED <<reqVars, toolVars, cron, auth, perf>>

\* delete(key), lines 267-272.
CacheDelete(key) ==
    /\ cache' = [Removed(cache, {key}) EXCEPT !.last = CacheOp("delete", key, None, 0)]
    /\ UNCHANGED <<reqVars, toolVars, cron, auth, perf>>

\* clear(), lines 274-278.
CacheClear ==
    /\ cache' = [Removed(cache, CacheKeys) EXCEPT !.last = CacheOp("clear", "", None, 0)]
    /\ UNCHANGED <<reqVars, toolVars, cron, auth, perf>>

\* cleanup_expired(), lines 280-298.
CacheCleanup ==
    /\ LET expired_keys == {k \in CacheKeys :
                                \E e \in cache.entries[k] : cache.now >= e.expires}
       IN  cache' = [Removed(cache, expired_keys) EXCEPT
                        !.last = CacheOp("cleanup_expired", "", None,
                                         Cardinality(expired_keys))]
    /\ UNCHANGED <<reqVars, toolVars, cron, auth, perf>>

\* A second passes on the clock datetime.now() reads.
CacheTick ==
    /\ cache.now < MaxTime
    /\ cache' = [cache EXCEPT !.now = @ + 1, !.last = CacheOp("none", "", None, 0)]
    /\ UNCHANGED <<reqVars, toolVars, cron, auth, perf>>

CacheInit ==
    /\ config = [max_retries |-> 0, retry_delay |-> 1]
    /\ ReqIdle /\ ToolIdle(1) /\ UtilIdle
CacheNext ==
    \/ \E key \in CacheKeys, value \in {1, 2}, ttl \in TtlSamples : CacheSet(key, value, ttl)
    \/ \E key \in CacheKeys : CacheGet(key)
    \/ \E key \in CacheKeys : CacheDelete(key)
    \/ CacheClear
    \/ CacheCleanup
    \/ CacheTick
CacheSpec == CacheInit /\ [][CacheNext]_vars

\* The expiry the specification gives the latest set g of a key: its time
\* plus its ttl, the default TTL standing in for an absent ttl and for 0.
ExpiryOf(g) ==
    g.at + (IF g.ttl \in {None, Some(0)} THEN cache.default_ttl
            ELSE CHOOSE t \in g.ttl : TRUE)

\* The latest set of key is still in force: nothing removed its entry and
\* the clock is strictly before its expiry.
InForce(key) ==
    \E g \in cache.log[key] : ~g.removed /\ cache.now < ExpiryOf(g)

\* C30: after any sequence of set, get, delete, clear and cleanup_expired,
\* get(key) returns the value of the latest set(key) exactly when no
\* delete(key), clear or eviction followed it and the time is strictly
\* before its expiry (set time + ttl; absent and 0 mean the default TTL),
\* and nothing otherwise; an expired entry is removed by the get that finds
\* it; cleanup_expired removes exactly the entries whose expiry is at or
\* before now and returns their number.
C30_CacheTtl ==
    /\ [](\A k \in CacheKeys : \A e \in cache.entries[k] :
            \E g \in cache.log[k] :
                ~g.removed /\ e.value = g.value /\ e.expires = ExpiryOf(g))
    /\ [][ /\ cache'.last.op = "get" =>
                LET k == cache'.last.key
                IN  /\ cache'.last.returned =
                            IF InForce(k) THEN {g.value : g \in cache.log[k]} ELSE None
                    /\ cache'.entries[k] = IF InForce(k) THEN cache.entries[k] ELSE None
                    /\ \A j \in CacheKeys \ {k} : cache'.entries[j] = cache.entries[j]
           /\ cache'.last.op = "cleanup_expired" =>
                LET gone == {k \in CacheKeys :
                                \E g \in cache.log[k] :
                                    ~g.removed /\ ExpiryOf(g) <= cache.now}
                IN  /\ cache'.last.count = Cardinality(gone)
                    /\ \A k \in CacheKeys :
                            cache'.entries[k] = IF k \in gone THEN None ELSE cache.entries[k]
         ]_cache

\* Both keys were set, one with ttl 0 and one without ttl, the clock reached
\* their expiry, one was found expired by a get and cleanup_expired removed
\* the other.
C30_Witness ==
    /\ cache.last.op = "cleanup_expired"
    /\ cache.last.count = 1
    /\ cache.now >= 2
    /\ \A k \in CacheKeys : cache.entries[k] = None
    /\ \E g \in cache.log["a"] : g.ttl = Some(0) /\ g.removed /\ g.at = 0
    /\ \E g \in cache.log["b"] : g.ttl = None /\ g.removed

====
